---- MODULE Spec2Model ----
(***************************************************************************)
(* Boot-to-sleep lifecycle controller of the Inkplate 6COLOR firmware      *)
(* (src/devices/inkplate-6color/inkplate-6color.ino).                      *)
(*                                                                         *)
(* One boot cycle is the sequential execution of setup(); the program      *)
(* counter pc names the place the execution has reached.  Strings that the *)
(* code inspects (wifi.txt, the version manifest, image_url) are sequences *)
(* of one-character strings, so that indexOf/substring/trim/replace are    *)
(* computed as the code computes them.  Time is millis() in milliseconds.  *)
(***************************************************************************)
EXTENDS Integers, Sequences, FiniteSets, TLC

\* ------------------------------------------------------------------ states
STATE_INITIALIZING == 0
STATE_CONNECTING_WIFI == 2
STATE_CHECKING_UPDATE == 3
STATE_UPDATING_FW == 4
STATE_FETCHING_IMAGE == 5
STATE_DISPLAYING_IMAGE == 6
STATE_ERROR == 7
STATE_SLEEPING == 8

ERROR_NONE == 0
ERROR_WIFI_CONNECT == 1
ERROR_SERVER_CONNECT == 2
ERROR_IMAGE_DOWNLOAD == 3
ERROR_SD_CARD == 4
ERROR_OTA_UPDATE == 5
ERROR_LOW_BATTERY == 6

WIFI_CONNECT_TIMEOUT == 30000
WIFI_CHECK_INTERVAL == 60000
BATTERY_CRITICAL_PCT == 5

\* seconds of sleep armed on the different paths
BATTERY_SLEEP_SECS == 3600
NO_CREDS_SLEEP_SECS == 300
RETRY_SLEEP_SECS == 60
MIN_WAKE_SECS == 60
MAX_WAKE_SECS == 86400

\* the setup() connect loop polls at most this many times, one second apart
CONNECT_MAX_ATTEMPTS == 15
CONNECT_POLL_MS == 1000
RECONNECT_POLL_MS == 500
\* downloadToSD gives up after this long without a byte
DOWNLOAD_STALL_MS == 10000

HTTP_OK == 200

\* t_httpUpdate_return
HTTP_UPDATE_FAILED == 0
HTTP_UPDATE_NO_UPDATES == 1
HTTP_UPDATE_OK == 2

\* ------------------------------------------------------------------ bounds
\* most chunks a download stream delivers before it ends
MaxChunks == 1
\* bytes in one chunk of the stream
ChunkBytes == 512
\* a stalled stretch of the read loop (delay(1) iterations with nothing
\* available) is advanced in steps of this many milliseconds
StallStepMs == 5000
\* how long a slow firmware transfer blocks httpUpdate.update()
SlowCallMs == 60000
\* the poll at which the access point answers, when it answers late
LateConnectPolls == 2

\* ------------------------------------------------------- Arduino String ops
Min(S) == CHOOSE x \in S : \A y \in S : x <= y

IsSpace(c) == c \in {" ", "\t", "\n", "\r", "\f"}

\* String::indexOf(pat, from): 0-based index of the first occurrence, or -1
IndexOf(s, pat, from) ==
    LET cand == {i \in from..(Len(s) - Len(pat)) :
                    \A j \in 1..Len(pat) : s[i + j] = pat[j]}
    IN IF cand = {} THEN -1 ELSE Min(cand)

\* String::substring(left, right): characters [left, right), 0-based
Substring(s, left, right) ==
    LET l == IF left > right THEN right ELSE left
        r0 == IF left > right THEN left ELSE right
        r == IF r0 > Len(s) THEN Len(s) ELSE r0
    IN IF l >= Len(s) THEN << >> ELSE SubSeq(s, l + 1, r)

\* String::trim(): drop leading and trailing whitespace
Trim(s) ==
    LET keep == {i \in 1..Len(s) : ~IsSpace(s[i])}
    IN IF keep = {} THEN << >>
       ELSE SubSeq(s, Min(keep), CHOOSE i \in keep : \A k \in keep : k <= i)

\* String::startsWith(p)
StartsWith(s, p) ==
    /\ Len(p) <= Len(s)
    /\ SubSeq(s, 1, Len(p)) = p

\* String::replace(find, repl): every occurrence, left to right
RECURSIVE Replace(_, _, _)
Replace(s, find, repl) ==
    LET i == IndexOf(s, find, 0)
    IN IF i < 0 THEN s
       ELSE SubSeq(s, 1, i) \o repl
            \o Replace(SubSeq(s, i + Len(find) + 1, Len(s)), find, repl)

S_NETWORK == <<"N", "E", "T", "W", "O", "R", "K", "=">>
S_PASSWORD == <<"P", "A", "S", "S", "W", "O", "R", "D", "=">>
S_HTTP == <<"h", "t", "t", "p", ":", "/", "/">>
S_HTTPS == <<"h", "t", "t", "p", "s", ":", "/", "/">>
S_NO_REFRESH == <<"N", "O", "_", "R", "E", "F", "R", "E", "S", "H">>
currentFirmwareVersion == <<"1", ".", "8">>

\* ------------------------------------------------------------ battery gate
\* mutant: the clamp at 100 percent is missing
voltageToPercent_NoUpperClamp(mv) ==
    LET pct == mv - 3200
    IN IF pct < 0 THEN 0 ELSE pct

\* voltageToPercent on a millivolt grid; the result is in tenths of a percent
\* ((v - 3.2) * 100 / (4.2 - 3.2) percent = (mv - 3200) / 10 percent)
voltageToPercent(mv) ==
    LET pct == mv - 3200
    IN IF pct > 1000 THEN 1000 ELSE IF pct < 0 THEN 0 ELSE pct

\* mutant: the threshold is compared in the wrong unit
BatteryCritical_WrongUnit(pct10) == pct10 < BATTERY_CRITICAL_PCT

\* setup()'s test batteryPercent < BATTERY_CRITICAL_PCT, on tenths of a percent
BatteryCritical(pct10) == pct10 < BATTERY_CRITICAL_PCT * 10

\* ------------------------------------------------------------ sleep interval
\* mutant: the lower bound is missing
ClampWake_NoLower(n) == IF n > MAX_WAKE_SECS THEN MAX_WAKE_SECS ELSE n

\* mutant: the upper bound is missing
ClampWake_NoUpper(n) == IF n < MIN_WAKE_SECS THEN MIN_WAKE_SECS ELSE n

\* the two ifs that bound nextWakeSec before it is persisted and armed
ClampWake(n) ==
    LET a == IF n < MIN_WAKE_SECS THEN MIN_WAKE_SECS ELSE n
    IN IF a > MAX_WAKE_SECS THEN MAX_WAKE_SECS ELSE a

\* --------------------------------------------------------------- wifi.txt
\* readWiFiCredentialsFromSD once the file is open: [ok, ssid, password]
ParseWiFiFile(fileContent) ==
    LET networkPos == IndexOf(fileContent, S_NETWORK, 0)
        passwordPos == IndexOf(fileContent, S_PASSWORD, 0)
        nl(from) == LET e == IndexOf(fileContent, <<"\n">>, from)
                    IN IF e < 0 THEN Len(fileContent) ELSE e
        ssid == Trim(Substring(fileContent, networkPos + 8, nl(networkPos)))
        password == Trim(Substring(fileContent, passwordPos + 9, nl(passwordPos)))
    IN IF networkPos < 0 THEN [ok |-> FALSE, ssid |-> << >>, password |-> << >>]
       ELSE IF passwordPos < 0 THEN [ok |-> FALSE, ssid |-> ssid, password |-> << >>]
       ELSE [ok |-> TRUE, ssid |-> ssid, password |-> password]

\* ------------------------------------------------------------------- inputs
\* wifi.txt on the card: absent, well formed (CR/LF line ends and padding that
\* trim() removes), or with an empty NETWORK= value
FILE_VALID == S_NETWORK \o <<" ", "n", "1", "\r", "\n">> \o S_PASSWORD \o <<"p", "1", "\n">>
FILE_EMPTY_NETWORK == S_NETWORK \o <<"\n">> \o S_PASSWORD \o <<"p", "1">>

WifiFiles ==
    {[exists |-> FALSE, content |-> << >>]}
    \cup {[exists |-> TRUE, content |-> c] :
            c \in {FILE_VALID, FILE_EMPTY_NETWORK}}

\* credentials the provisioning collaborator may have left in the store
StoredCreds ==
    {[ssid |-> << >>, password |-> << >>],
     [ssid |-> <<"h", "m">>, password |-> <<"p", "w">>]}

\* battery samples in millivolts: below range (0 %), 4.9 %, 5 %
Voltages == {3100, 3249, 3250}

\* when the access point answers after WiFi.begin: at once, late, never (-1)
ConnectAts == {0, LateConnectPolls, -1}

\* how long the firmware transfer of the first update attempt blocks
UpdateDurations == {0, SlowCallMs}

\* ------------------------------------------------------------------- state
VARIABLES
    pc,                    \* place reached in setup() and its callees
    currentState,          \* RAM: lifecycle state
    errorCode,             \* RAM: error code
    wifiReconnectAttempts, \* RAM: consecutive reconnect timeouts
    sdCardAvailable,       \* RAM: result of display.sdCardInit()
    stateChangeTime,       \* RAM: millis() at the last setState
    lastWifiCheckTime,     \* RAM: millis() at the last reconnect attempt
    millis,                \* milliseconds since this boot
    prefs,                 \* NVS: state.lastState, state.errorCode, wifi.ssid,
                           \*      wifi.password, sleep.nextWake
    wifiFile,              \* /wifi.txt on the SD card
    radio,                 \* "off" or "sta": Wi-Fi radio started in station mode
    timerWakeup,           \* seconds armed with esp_sleep_enable_timer_wakeup, 0 if none
    ext0Wakeup,            \* esp_sleep_enable_ext0_wakeup(GPIO_NUM_36, 0) done
    loc,                   \* locals of setup(), checkAndReconnectWifi(),
                           \* checkOTAUpdate(), fetchAndDisplayImage(), downloadToSD()
    env,                   \* the network as seen by this boot
    trace,                 \* history: the calls made in this boot, in order
    lastSet,               \* history: arguments of the latest setState call
    battPct,               \* history: battery percent (tenths) sampled in this boot
    failedUpdate           \* history: a firmware update has failed since the last
                           \*          entry to deep sleep

vars == <<pc, currentState, errorCode, wifiReconnectAttempts, sdCardAvailable,
          stateChangeTime, lastWifiCheckTime, millis, prefs, wifiFile, radio,
          timerWakeup, ext0Wakeup, loc, env, trace, lastSet, battPct, failedUpdate>>

\* no "time" key in the response document
NO_TIME == [present |-> FALSE, obj |-> [none |-> 0]]

\* values of the locals before the functions that own them run
InitLoc ==
    [ssid |-> << >>, password |-> << >>, attempts |-> 0, startTime |-> 0,
     rcCaller |-> "none", rcResult |-> FALSE, startAttempt |-> 0, polls |-> 0,
     newVersion |-> << >>, ret |-> HTTP_UPDATE_NO_UPDATES,
     parsed |-> FALSE, time |-> NO_TIME, imageUrl |-> << >>, nextWakeSec |-> 0,
     lastReadTime |-> 0, totalBytes |-> 0, voltage |-> 0]

InitEnv == [connectAt |-> -1, everConnected |-> FALSE, chunks |-> 0]

\* -------------------------------------------------- sequential building blocks
\* The part of the state that the straight-line code of one step updates,
\* threaded through the step in program order.
Cur ==
    [currentState |-> currentState, errorCode |-> errorCode,
     stateChangeTime |-> stateChangeTime, millis |-> millis, prefs |-> prefs,
     radio |-> radio, timerWakeup |-> timerWakeup, ext0Wakeup |-> ext0Wakeup,
     trace |-> trace, lastSet |-> lastSet]

Commit(m) ==
    /\ currentState' = m.currentState
    /\ errorCode' = m.errorCode
    /\ stateChangeTime' = m.stateChangeTime
    /\ millis' = m.millis
    /\ prefs' = m.prefs
    /\ radio' = m.radio
    /\ timerWakeup' = m.timerWakeup
    /\ ext0Wakeup' = m.ext0Wakeup
    /\ trace' = m.trace
    /\ lastSet' = m.lastSet

Ev(m, kind, a, b) == [m EXCEPT !.trace = Append(@, <<kind, a, b>>)]

delay(m, ms) == [m EXCEPT !.millis = @ + ms]

\* updateStateDisplay: the panel is refreshed only in the error state
updateStateDisplay(m) ==
    IF m.currentState # STATE_ERROR THEN m ELSE Ev(m, "display", 196, 0)

\* setState(newState, newErrorCode)
setState(m, newState, newErrorCode) ==
    LET m1 == [m EXCEPT !.prefs.lastState = m.currentState,
                        !.prefs.errorCode = newErrorCode,
                        !.lastSet = <<newState, newErrorCode>>]
        m2 == [m1 EXCEPT !.currentState = newState,
                         !.errorCode = newErrorCode,
                         !.stateChangeTime = m.millis]
    IN updateStateDisplay(Ev(m2, "setState", newState, newErrorCode))

\* WiFi.mode(WIFI_STA); WiFi.begin(...)
wifiBegin(m) == Ev([m EXCEPT !.radio = "sta"], "wifiBegin", 0, 0)

\* WiFi.disconnect(); WiFi.mode(WIFI_OFF); esp_wifi_stop()
wifiShutdown(m) == Ev([m EXCEPT !.radio = "off"], "wifiOff", 0, 0)

\* esp_sleep_enable_timer_wakeup(secs * 1000000ULL)
armTimer(m, secs) == Ev([m EXCEPT !.timerWakeup = secs], "timer", secs, 0)

\* mutant: the button wake source is not armed
armExt0_Forgotten(m) == m

\* esp_sleep_enable_ext0_wakeup(GPIO_NUM_36, 0)
armExt0(m) == Ev([m EXCEPT !.ext0Wakeup = TRUE], "ext0", 36, 0)

\* mutant: the credentials read from the card are not saved to the store
readWiFiCredentialsFromSD_NoBackup(m) ==
    IF ~sdCardAvailable \/ ~wifiFile.exists
    THEN [m |-> m, ok |-> FALSE, ssid |-> << >>, password |-> << >>]
    ELSE LET r == ParseWiFiFile(wifiFile.content)
         IN [m |-> m, ok |-> r.ok, ssid |-> r.ssid, password |-> r.password]

\* readWiFiCredentialsFromSD(ssid, password)
readWiFiCredentialsFromSD(m) ==
    IF ~sdCardAvailable \/ ~wifiFile.exists
    THEN [m |-> m, ok |-> FALSE, ssid |-> << >>, password |-> << >>]
    ELSE LET r == ParseWiFiFile(wifiFile.content)
         IN IF r.ok
            THEN [m |-> [m EXCEPT !.prefs.ssid = r.ssid, !.prefs.password = r.password],
                  ok |-> TRUE, ssid |-> r.ssid, password |-> r.password]
            ELSE [m |-> m, ok |-> FALSE, ssid |-> r.ssid, password |-> r.password]

\* WiFi.status() == WL_CONNECTED at the given poll after WiFi.begin
Connected(polls) ==
    /\ radio = "sta"
    /\ env.connectAt >= 0
    /\ polls >= env.connectAt

\* ---------------------------------------------------------------------- Init
Init ==
    /\ pc = "setup"
    /\ currentState = STATE_INITIALIZING
    /\ errorCode = ERROR_NONE
    /\ wifiReconnectAttempts = 0
    /\ sdCardAvailable = FALSE
    /\ stateChangeTime = 0
    /\ lastWifiCheckTime = 0
    /\ millis = 0
    /\ \E c \in StoredCreds :
          prefs = [lastState |-> -1, errorCode |-> -1, ssid |-> c.ssid,
                   password |-> c.password, nextWake |-> -1]
    /\ wifiFile \in WifiFiles
    /\ radio = "off"
    /\ timerWakeup = 0
    /\ ext0Wakeup = FALSE
    /\ loc = InitLoc
    /\ env = InitEnv
    /\ trace = << >>
    /\ lastSet = <<-1, -1>>
    /\ battPct = -1
    /\ failedUpdate = FALSE

\* ------------------------------------------------------------------- setup()
\* setup() up to the battery check: serial, display, RTC, SD card, wake cause
SetupBegin ==
    /\ pc = "setup"
    /\ \E ok \in BOOLEAN : sdCardAvailable' = ok
    /\ Commit([delay(Cur, 2000) EXCEPT !.currentState = STATE_INITIALIZING])
    /\ pc' = "battery"
    /\ UNCHANGED <<wifiReconnectAttempts, lastWifiCheckTime, wifiFile, loc, env, battPct, failedUpdate>>

\* the battery gate
BatteryCheck ==
    /\ pc = "battery"
    /\ \E mv \in Voltages :
          LET batteryPercent == voltageToPercent(mv)
          IN /\ battPct' = batteryPercent
             /\ IF BatteryCritical(batteryPercent)
                THEN /\ Commit(delay(setState(Cur, STATE_ERROR, ERROR_LOW_BATTERY), 5000))
                     /\ pc' = "battery_sleep"
                ELSE /\ Commit(Cur)
                     /\ pc' = "credentials"
    /\ UNCHANGED <<wifiReconnectAttempts, sdCardAvailable, lastWifiCheckTime,
                   wifiFile, loc, env, failedUpdate>>

\* battery critical: radio off, one hour timer, Sleeping
BatterySleep ==
    /\ pc = "battery_sleep"
    /\ Commit(delay(setState(armExt0(armTimer(wifiShutdown(Cur), BATTERY_SLEEP_SECS)),
                             STATE_SLEEPING, ERROR_NONE), 1000))
    /\ pc' = "sd_sleep"
    /\ UNCHANGED <<wifiReconnectAttempts, sdCardAvailable, lastWifiCheckTime,
                   wifiFile, loc, env, battPct, failedUpdate>>

\* display.sdCardSleep(); esp_deep_sleep_start()
EnterDeepSleep ==
    /\ pc = "sd_sleep"
    /\ Commit(Ev(delay(Ev(Cur, "sdCardSleep", 0, 0), 100), "deepSleep", 0, 0))
    /\ pc' = "deep_sleep"
    /\ UNCHANGED <<wifiReconnectAttempts, sdCardAvailable, lastWifiCheckTime,
                   wifiFile, loc, env, battPct, failedUpdate>>

\* credentials: wifi.txt first, the store second
ResolveCredentials ==
    /\ pc = "credentials"
    /\ \E r \in {readWiFiCredentialsFromSD(Cur)} :
       LET ssid == IF r.ok THEN r.ssid ELSE r.m.prefs.ssid
           password == IF r.ok THEN r.password ELSE r.m.prefs.password
           hasWiFiCredentials == r.ok \/ ssid # << >>
       IN /\ Commit(r.m)
          /\ loc' = [loc EXCEPT !.ssid = ssid, !.password = password]
          /\ pc' = IF hasWiFiCredentials THEN "connect" ELSE "no_credentials"
    /\ UNCHANGED <<wifiReconnectAttempts, sdCardAvailable, lastWifiCheckTime,
                   wifiFile, env, battPct, failedUpdate>>

\* mutant: the no-credentials sleep uses the one minute retry interval
NoCredentials_RetriesInAMinute ==
    /\ pc = "no_credentials"
    /\ Commit(armExt0(armTimer(delay(Ev(setState(Cur, STATE_ERROR, ERROR_WIFI_CONNECT),
                                        "display", 1071, 0), 5000),
                               RETRY_SLEEP_SECS)))
    /\ pc' = "sd_sleep"
    /\ UNCHANGED <<wifiReconnectAttempts, sdCardAvailable, lastWifiCheckTime,
                   wifiFile, loc, env, battPct, failedUpdate>>

\* no credentials anywhere: setup screen, five minute timer
NoCredentials ==
    /\ pc = "no_credentials"
    /\ Commit(armExt0(armTimer(delay(Ev(setState(Cur, STATE_ERROR, ERROR_WIFI_CONNECT),
                                        "display", 1071, 0), 5000),
                               NO_CREDS_SLEEP_SECS)))
    /\ pc' = "sd_sleep"
    /\ UNCHANGED <<wifiReconnectAttempts, sdCardAvailable, lastWifiCheckTime,
                   wifiFile, loc, env, battPct, failedUpdate>>

\* WiFi.mode(WIFI_STA); WiFi.begin(ssid, password)
ConnectBegin ==
    /\ pc = "connect"
    /\ LET m == wifiBegin(setState(Cur, STATE_CONNECTING_WIFI, ERROR_NONE))
       IN /\ Commit(m)
          /\ loc' = [loc EXCEPT !.startTime = m.millis, !.attempts = 0]
    /\ \E at \in ConnectAts :
          /\ loc.ssid = << >> => at = -1
          /\ env' = [env EXCEPT !.connectAt = at]
    /\ pc' = "connect_loop"
    /\ UNCHANGED <<wifiReconnectAttempts, sdCardAvailable, lastWifiCheckTime,
                   wifiFile, battPct, failedUpdate>>

\* one evaluation of the connect loop's condition, and its body
ConnectPoll ==
    /\ pc = "connect_loop"
    /\ IF ~Connected(loc.attempts) /\ loc.attempts < CONNECT_MAX_ATTEMPTS
          /\ ~(millis - loc.startTime > WIFI_CONNECT_TIMEOUT)
       THEN /\ Commit(delay(Cur, CONNECT_POLL_MS))
            /\ loc' = [loc EXCEPT !.attempts = @ + 1]
            /\ pc' = "connect_loop"
       ELSE /\ Commit(Cur)
            /\ loc' = loc
            /\ pc' = "connect_done"
    /\ UNCHANGED <<wifiReconnectAttempts, sdCardAvailable, lastWifiCheckTime,
                   wifiFile, env, battPct, failedUpdate>>

\* mutant: a failed boot-time connect restarts the device
ConnectDone_FailureRestarts ==
    /\ pc = "connect_done"
    /\ IF Connected(loc.attempts)
       THEN /\ Commit(Cur)
            /\ env' = [env EXCEPT !.everConnected = TRUE]
            /\ pc' = "ota_begin"
       ELSE /\ Commit(Ev(delay(Ev(setState(Cur, STATE_ERROR, ERROR_WIFI_CONNECT),
                                  "display", 1129, 0), 5000), "restart", 1129, 0))
            /\ env' = env
            /\ pc' = "restarted"
    /\ UNCHANGED <<wifiReconnectAttempts, sdCardAvailable, lastWifiCheckTime,
                   wifiFile, loc, battPct, failedUpdate>>

\* after the loop: connected, or the connection failed
ConnectDone ==
    /\ pc = "connect_done"
    /\ IF Connected(loc.attempts)
       THEN /\ Commit(Cur)
            /\ env' = [env EXCEPT !.everConnected = TRUE]
            /\ pc' = "ota_begin"
       ELSE /\ Commit(delay(Ev(setState(Cur, STATE_ERROR, ERROR_WIFI_CONNECT),
                               "display", 1129, 0), 5000))
            /\ env' = env
            /\ pc' = "connect_failed_sleep"
    /\ UNCHANGED <<wifiReconnectAttempts, sdCardAvailable, lastWifiCheckTime,
                   wifiFile, loc, battPct, failedUpdate>>

\* boot-time connect failure: one minute timer, Sleeping
ConnectFailedSleep ==
    /\ pc = "connect_failed_sleep"
    /\ Commit(delay(setState(armExt0(armTimer(Cur, RETRY_SLEEP_SECS)),
                             STATE_SLEEPING, ERROR_NONE), 1000))
    /\ pc' = "sd_sleep"
    /\ UNCHANGED <<wifiReconnectAttempts, sdCardAvailable, lastWifiCheckTime,
                   wifiFile, loc, env, battPct, failedUpdate>>

\* ------------------------------------------------- checkAndReconnectWifi()
\* return from checkAndReconnectWifi to the caller's test of the result
RcReturnPc == IF loc.rcCaller = "ota" THEN "ota_wifi_checked" ELSE "fetch_wifi_checked"

\* mutant: the connected path also restarts the cool-down
RcEntry_ConnectedTouchesTime ==
    /\ pc = "rc_entry"
    /\ \E status \in BOOLEAN :
          /\ status => radio = "sta"
          /\ IF status
             THEN /\ wifiReconnectAttempts' = 0
                  /\ loc' = [loc EXCEPT !.rcResult = TRUE]
                  /\ pc' = RcReturnPc
                  /\ Commit(Cur)
                  /\ lastWifiCheckTime' = millis
                  /\ env' = env
             ELSE IF millis - lastWifiCheckTime < WIFI_CHECK_INTERVAL
             THEN /\ loc' = [loc EXCEPT !.rcResult = FALSE]
                  /\ pc' = RcReturnPc
                  /\ Commit(Cur)
                  /\ UNCHANGED <<wifiReconnectAttempts, lastWifiCheckTime, env>>
             ELSE \E r \in {readWiFiCredentialsFromSD(Cur)} :
                  LET ssid == IF r.ok THEN r.ssid ELSE r.m.prefs.ssid
                      password == IF r.ok THEN r.password ELSE r.m.prefs.password
                  IN /\ lastWifiCheckTime' = millis
                     /\ UNCHANGED wifiReconnectAttempts
                     /\ IF ssid = << >>
                        THEN /\ loc' = [loc EXCEPT !.rcResult = FALSE]
                             /\ pc' = RcReturnPc
                             /\ Commit(r.m)
                             /\ env' = env
                        ELSE LET m == wifiBegin(setState(r.m, STATE_CONNECTING_WIFI, ERROR_NONE))
                             IN /\ Commit(m)
                                /\ loc' = [loc EXCEPT !.startAttempt = m.millis, !.polls = 0]
                                /\ \E at \in ConnectAts : env' = [env EXCEPT !.connectAt = at]
                                /\ pc' = "rc_loop"
    /\ UNCHANGED <<sdCardAvailable, wifiFile, battPct, failedUpdate>>

\* entry: connected, cooling down, or a real attempt begins
RcEntry ==
    /\ pc = "rc_entry"
    /\ \E status \in BOOLEAN :
          /\ status => radio = "sta"
          /\ IF status
             THEN /\ wifiReconnectAttempts' = 0
                  /\ loc' = [loc EXCEPT !.rcResult = TRUE]
                  /\ pc' = RcReturnPc
                  /\ Commit(Cur)
                  /\ UNCHANGED <<lastWifiCheckTime, env>>
             ELSE IF millis - lastWifiCheckTime < WIFI_CHECK_INTERVAL
             THEN /\ loc' = [loc EXCEPT !.rcResult = FALSE]
                  /\ pc' = RcReturnPc
                  /\ Commit(Cur)
                  /\ UNCHANGED <<wifiReconnectAttempts, lastWifiCheckTime, env>>
             ELSE \E r \in {readWiFiCredentialsFromSD(Cur)} :
                  LET ssid == IF r.ok THEN r.ssid ELSE r.m.prefs.ssid
                      password == IF r.ok THEN r.password ELSE r.m.prefs.password
                  IN /\ lastWifiCheckTime' = millis
                     /\ UNCHANGED wifiReconnectAttempts
                     /\ IF ssid = << >>
                        THEN /\ loc' = [loc EXCEPT !.rcResult = FALSE]
                             /\ pc' = RcReturnPc
                             /\ Commit(r.m)
                             /\ env' = env
                        ELSE LET m == wifiBegin(setState(r.m, STATE_CONNECTING_WIFI, ERROR_NONE))
                             IN /\ Commit(m)
                                /\ loc' = [loc EXCEPT !.startAttempt = m.millis, !.polls = 0]
                                /\ \E at \in ConnectAts : env' = [env EXCEPT !.connectAt = at]
                                /\ pc' = "rc_loop"
    /\ UNCHANGED <<sdCardAvailable, wifiFile, battPct, failedUpdate>>

\* one pass of the reconnect wait loop
RcPoll ==
    /\ pc = "rc_loop"
    /\ IF Connected(loc.polls)
       THEN /\ wifiReconnectAttempts' = 0
            /\ loc' = [loc EXCEPT !.rcResult = TRUE]
            /\ env' = [env EXCEPT !.everConnected = TRUE]
            /\ pc' = RcReturnPc
            /\ Commit(Cur)
       ELSE IF millis - loc.startAttempt > WIFI_CONNECT_TIMEOUT
       THEN /\ wifiReconnectAttempts' = (wifiReconnectAttempts + 1) % 256
            /\ loc' = [loc EXCEPT !.rcResult = FALSE]
            /\ env' = env
            /\ pc' = RcReturnPc
            /\ Commit(Cur)
       ELSE /\ Commit(delay(Cur, RECONNECT_POLL_MS))
            /\ loc' = [loc EXCEPT !.polls = @ + 1]
            /\ pc' = "rc_loop"
            /\ UNCHANGED <<wifiReconnectAttempts, env>>
    /\ UNCHANGED <<sdCardAvailable, lastWifiCheckTime, wifiFile, battPct, failedUpdate>>

\* ------------------------------------------------------------ checkOTAUpdate()
\* bodies the version manifest may carry
VersionBodies ==
    {<<"1", ".", "8">>, <<"1", ".", "8", "\n">>, <<"1", ".", "9">>, <<"1", ".", "7", "\n">>}

\* logEvent("Latest firmware: " + newVersion), newVersion trimmed: 1 when the
\* logged version is the compiled-in one
LatestIsCurrent(body) == IF Trim(body) = currentFirmwareVersion THEN 1 ELSE 0

\* mutant: the manifest body is compared as received
VersionDiffers_NoTrim(body) == body # currentFirmwareVersion

\* newVersion.trim(); newVersion != String(currentFirmwareVersion)
VersionDiffers(body) == Trim(body) # currentFirmwareVersion

OtaBegin ==
    /\ pc = "ota_begin"
    /\ Commit(setState(Cur, STATE_CHECKING_UPDATE, ERROR_NONE))
    /\ loc' = [loc EXCEPT !.rcCaller = "ota"]
    /\ pc' = "rc_entry"
    /\ UNCHANGED <<wifiReconnectAttempts, sdCardAvailable, lastWifiCheckTime,
                   wifiFile, env, battPct, failedUpdate>>

\* the manifest GET and the comparison with the compiled-in version
OtaVersionCheck ==
    /\ pc = "ota_wifi_checked"
    /\ IF ~loc.rcResult
       THEN /\ Commit(Cur)
            /\ loc' = loc
            /\ pc' = "fetch_begin"
       ELSE \E begun \in BOOLEAN, httpCode \in {HTTP_OK, 404, -1}, body \in VersionBodies :
               IF ~begun
               THEN /\ Commit(Cur)
                    /\ loc' = loc
                    /\ pc' = "fetch_begin"
               ELSE IF httpCode # HTTP_OK
               THEN /\ Commit(Ev(Cur, "versionGet", 0, 0))
                    /\ loc' = loc
                    /\ pc' = "fetch_begin"
               ELSE IF VersionDiffers(body)
               THEN /\ Commit(setState(delay(wifiBegin(delay(wifiShutdown(delay(
                               Ev(Cur, "versionGet", 1, LatestIsCurrent(body)), 1000)),
                               500)), 1000),
                               STATE_UPDATING_FW, ERROR_NONE))
                    /\ loc' = [loc EXCEPT !.newVersion = Trim(body)]
                    /\ pc' = "ota_http"
               ELSE /\ Commit(Ev(Cur, "versionGet", 1, LatestIsCurrent(body)))
                    /\ loc' = loc
                    /\ pc' = "fetch_begin"
    /\ UNCHANGED <<wifiReconnectAttempts, sdCardAvailable, lastWifiCheckTime,
                   wifiFile, env, battPct, failedUpdate>>

\* mutant: a failed insecure attempt is not followed by the secure one
OtaHttp_NoFallback ==
    /\ pc = "ota_http"
    /\ \E ret \in {HTTP_UPDATE_FAILED, HTTP_UPDATE_NO_UPDATES, HTTP_UPDATE_OK},
          d \in UpdateDurations :
          /\ Commit(delay(Ev(Cur, "update", 0, ret), d))
          /\ loc' = [loc EXCEPT !.ret = ret]
          /\ pc' = "ota_result"
    /\ UNCHANGED <<wifiReconnectAttempts, sdCardAvailable, lastWifiCheckTime,
                   wifiFile, env, battPct, failedUpdate>>

\* httpUpdate.update(httpClient, httpUrl): the insecure transport
OtaHttp ==
    /\ pc = "ota_http"
    /\ \E ret \in {HTTP_UPDATE_FAILED, HTTP_UPDATE_NO_UPDATES, HTTP_UPDATE_OK},
          d \in UpdateDurations :
          /\ Commit(delay(Ev(Cur, "update", 0, ret), d))
          /\ loc' = [loc EXCEPT !.ret = ret]
          /\ pc' = IF ret = HTTP_UPDATE_FAILED THEN "ota_https" ELSE "ota_result"
    /\ UNCHANGED <<wifiReconnectAttempts, sdCardAvailable, lastWifiCheckTime,
                   wifiFile, env, battPct, failedUpdate>>

\* httpUpdate.update(secureClient, firmwareURL): the fallback
OtaHttps ==
    /\ pc = "ota_https"
    /\ \E ret \in {HTTP_UPDATE_FAILED, HTTP_UPDATE_NO_UPDATES, HTTP_UPDATE_OK} :
          /\ Commit(Ev(Cur, "update", 1, ret))
          /\ loc' = [loc EXCEPT !.ret = ret]
          /\ pc' = "ota_result"
    /\ UNCHANGED <<wifiReconnectAttempts, sdCardAvailable, lastWifiCheckTime,
                   wifiFile, env, battPct, failedUpdate>>

\* mutant: a successful update returns to setup() instead of restarting
OtaResult_NoRestart ==
    /\ pc = "ota_result"
    /\ IF loc.ret = HTTP_UPDATE_FAILED
       THEN /\ Commit(delay(setState(Cur, STATE_ERROR, ERROR_OTA_UPDATE), 5000))
            /\ pc' = "fetch_begin"
       ELSE /\ Commit(Cur)
            /\ pc' = "fetch_begin"
    /\ loc' = [loc EXCEPT !.newVersion = << >>]
    /\ failedUpdate' = (failedUpdate \/ loc.ret = HTTP_UPDATE_FAILED)
    /\ UNCHANGED <<wifiReconnectAttempts, sdCardAvailable, lastWifiCheckTime,
                   wifiFile, env, battPct>>

\* mutant: a failed update is recorded and sent to the retry sleep
OtaResult_FailureSleeps ==
    /\ pc = "ota_result"
    /\ IF loc.ret = HTTP_UPDATE_FAILED
       THEN /\ Commit(delay(setState(Cur, STATE_ERROR, ERROR_OTA_UPDATE), 5000))
            /\ pc' = "retry_sleep"
       ELSE IF loc.ret = HTTP_UPDATE_OK
       THEN /\ Commit(Ev(delay(Cur, 1000), "restart", 937, 0))
            /\ pc' = "restarted"
       ELSE /\ Commit(Cur)
            /\ pc' = "fetch_begin"
    /\ loc' = [loc EXCEPT !.newVersion = << >>]
    /\ failedUpdate' = (failedUpdate \/ loc.ret = HTTP_UPDATE_FAILED)
    /\ UNCHANGED <<wifiReconnectAttempts, sdCardAvailable, lastWifiCheckTime,
                   wifiFile, env, battPct>>

\* switch (ret), and the return from checkOTAUpdate
OtaResult ==
    /\ pc = "ota_result"
    /\ IF loc.ret = HTTP_UPDATE_FAILED
       THEN /\ Commit(delay(setState(Cur, STATE_ERROR, ERROR_OTA_UPDATE), 5000))
            /\ pc' = "fetch_begin"
       ELSE IF loc.ret = HTTP_UPDATE_OK
       THEN /\ Commit(Ev(delay(Cur, 1000), "restart", 937, 0))
            /\ pc' = "restarted"
       ELSE /\ Commit(Cur)
            /\ pc' = "fetch_begin"
    /\ loc' = [loc EXCEPT !.newVersion = << >>]
    /\ failedUpdate' = (failedUpdate \/ loc.ret = HTTP_UPDATE_FAILED)
    /\ UNCHANGED <<wifiReconnectAttempts, sdCardAvailable, lastWifiCheckTime,
                   wifiFile, env, battPct>>

\* ------------------------------------------------------ fetchAndDisplayImage()
\* image_url values of the directive: the sentinel, an insecure URL, a secure
\* URL, an empty or missing string, a string with no http scheme
ImageUrls ==
    {S_NO_REFRESH,
     S_HTTP \o <<"x", "/", "y">>,
     S_HTTPS \o <<"x", "/", "y">>,
     << >>,
     <<"f", "t", "p", ":", "/", "/", "x">>}

\* next_wake_secs of the directive: missing, or a number
NextWakeFields ==
    {[present |-> FALSE, value |-> 0]}
    \cup {[present |-> TRUE, value |-> n] : n \in {-5, 45, 60, 300, 86400, 90000}}

\* respDoc["next_wake_secs"].as<long>()
AsLong(field) == IF field.present THEN field.value ELSE 0

\* the time object of the directive: a map from field names to numbers
T_VALID == [year |-> 25, month |-> 11, day |-> 5, weekday |-> 3,
            hour |-> 14, minute |-> 4, second |-> 0]
TimeObjs ==
    {T_VALID,
     [T_VALID EXCEPT !.month = 13],
     [T_VALID EXCEPT !.hour = 256],
     [year |-> 25, month |-> 11, day |-> 5, weekday |-> 3, hour |-> 14, minute |-> 4]}

\* respDoc["time"]: absent, or one of the objects
TimeBlocks == {NO_TIME} \cup {[present |-> TRUE, obj |-> t] : t \in TimeObjs}

\* JsonVariant::as<uint8_t>(): a number that does not fit reads as 0
AsUint8(n) == IF n >= 0 /\ n <= 255 THEN n ELSE 0

\* syncRTCFromServerData: TRUE when the clock is set
syncRTCFromServerData(timeObj) ==
    /\ {"year", "month", "day", "weekday", "hour", "minute", "second"} \subseteq DOMAIN timeObj
    /\ LET year == AsUint8(timeObj.year)
           month == AsUint8(timeObj.month)
           day == AsUint8(timeObj.day)
           weekday == AsUint8(timeObj.weekday)
           hour == AsUint8(timeObj.hour)
           minute == AsUint8(timeObj.minute)
           second == AsUint8(timeObj.second)
       IN ~(year < 23 \/ year > 99 \/ month < 1 \/ month > 12
            \/ day < 1 \/ day > 31 \/ weekday < 1 \/ weekday > 7
            \/ hour > 23 \/ minute > 59 \/ second > 59)

\* mutant: any non-empty string is taken for a URL
ValidImageUrl_AnyNonEmpty(imageUrl) == Len(imageUrl) > 0

\* imageUrl is an http:// or https:// URL
ValidImageUrl(imageUrl) ==
    /\ Len(imageUrl) > 0
    /\ StartsWith(imageUrl, S_HTTP) \/ StartsWith(imageUrl, S_HTTPS)

\* mutant: the URL is handed to downloadToSD as the server gave it
UpgradeUrl_Unchanged(imageUrl) == imageUrl

\* the URL handed to downloadToSD
UpgradeUrl(imageUrl) ==
    IF StartsWith(imageUrl, S_HTTP) THEN Replace(imageUrl, S_HTTP, S_HTTPS) ELSE imageUrl

\* a session failure: the logEvent("ERROR: ...") at the given source line, then
\* setState(STATE_ERROR, code); delay(5000)
SessionError(m, line, code) ==
    delay(setState(Ev(m, "logError", line, 0), STATE_ERROR, code), 5000)

\* mutant: the sentinel is compared with a different literal
IsNoRefresh_WrongLiteral(imageUrl) == imageUrl = <<"N", "O", "R", "E", "F", "R", "E", "S", "H">>

\* imageUrl == "NO_REFRESH"
IsNoRefresh(imageUrl) == imageUrl = S_NO_REFRESH

FetchBegin ==
    /\ pc = "fetch_begin"
    /\ Commit(setState(Cur, STATE_FETCHING_IMAGE, ERROR_NONE))
    /\ loc' = [loc EXCEPT !.rcCaller = "fetch"]
    /\ pc' = "rc_entry"
    /\ UNCHANGED <<wifiReconnectAttempts, sdCardAvailable, lastWifiCheckTime,
                   wifiFile, env, battPct, failedUpdate>>

\* mutant: the failure branch returns instead of restarting, so setup()
\* returns and the device idles in loop()
FetchWifiChecked_Returns ==
    /\ pc = "fetch_wifi_checked"
    /\ IF ~loc.rcResult
       THEN /\ Commit(delay(setState(Cur, STATE_ERROR, ERROR_WIFI_CONNECT), 5000))
            /\ pc' = "loop"
       ELSE /\ Commit(Cur)
            /\ pc' = "post"
    /\ UNCHANGED <<wifiReconnectAttempts, sdCardAvailable, lastWifiCheckTime,
                   wifiFile, loc, env, battPct, failedUpdate>>

\* if (!checkAndReconnectWifi()) { setState(Error, WifiConnect); ESP.restart(); }
FetchWifiChecked ==
    /\ pc = "fetch_wifi_checked"
    /\ IF ~loc.rcResult
       THEN /\ Commit(Ev(delay(setState(Cur, STATE_ERROR, ERROR_WIFI_CONNECT), 5000),
                         "restart", 534, 0))
            /\ pc' = "restarted"
       ELSE /\ Commit(Cur)
            /\ pc' = "post"
    /\ UNCHANGED <<wifiReconnectAttempts, sdCardAvailable, lastWifiCheckTime,
                   wifiFile, loc, env, battPct, failedUpdate>>

\* mutant: a failed POST restarts the device instead of sleeping
Post_RestartsOnFailure ==
    /\ pc = "post"
    /\ \E begun \in BOOLEAN, httpCode \in {HTTP_OK, 500, -1} :
          IF ~begun
          THEN /\ Commit(Ev(SessionError(Cur, 556, ERROR_SERVER_CONNECT), "restart", 0, 0))
               /\ pc' = "restarted"
          ELSE IF httpCode # HTTP_OK
          THEN /\ Commit(Ev(SessionError(Ev(Cur, "post", 0, 0), 603, ERROR_SERVER_CONNECT),
                            "restart", 0, 0))
               /\ pc' = "restarted"
          ELSE /\ Commit(Ev(Cur, "post", 0, 0))
               /\ pc' = "parse"
    /\ UNCHANGED <<wifiReconnectAttempts, sdCardAvailable, lastWifiCheckTime,
                   wifiFile, loc, env, battPct, failedUpdate>>

\* the telemetry POST
Post ==
    /\ pc = "post"
    /\ \E begun \in BOOLEAN, httpCode \in {HTTP_OK, 500, -1} :
          IF ~begun
          THEN /\ Commit(SessionError(Cur, 556, ERROR_SERVER_CONNECT))
               /\ pc' = "retry_sleep"
          ELSE IF httpCode # HTTP_OK
          THEN /\ Commit(SessionError(Ev(Cur, "post", 0, 0), 603, ERROR_SERVER_CONNECT))
               /\ pc' = "retry_sleep"
          ELSE /\ Commit(Ev(Cur, "post", 0, 0))
               /\ pc' = "parse"
    /\ UNCHANGED <<wifiReconnectAttempts, sdCardAvailable, lastWifiCheckTime,
                   wifiFile, loc, env, battPct, failedUpdate>>

\* mutant: the parse failure is recorded but the session carries on
Parse_FallsThrough ==
    /\ pc = "parse"
    /\ \E err \in BOOLEAN :
          IF err
          THEN /\ Commit(SessionError(Ev(Cur, "parse", 0, 0), 632, ERROR_SERVER_CONNECT))
               /\ loc' = loc
               /\ pc' = "time_sync"
          ELSE /\ Commit(Ev(Cur, "parse", 1, 0))
               /\ loc' = [loc EXCEPT !.parsed = TRUE]
               /\ pc' = "time_sync"
    /\ UNCHANGED <<wifiReconnectAttempts, sdCardAvailable, lastWifiCheckTime,
                   wifiFile, env, battPct, failedUpdate>>

\* deserializeJson(respDoc, resp)
Parse ==
    /\ pc = "parse"
    /\ \E err \in BOOLEAN :
          IF err
          THEN /\ Commit(SessionError(Ev(Cur, "parse", 0, 0), 632, ERROR_SERVER_CONNECT))
               /\ loc' = loc
               /\ pc' = "retry_sleep"
          ELSE /\ Commit(Ev(Cur, "parse", 1, 0))
               /\ loc' = [loc EXCEPT !.parsed = TRUE]
               /\ pc' = "time_sync"
    /\ UNCHANGED <<wifiReconnectAttempts, sdCardAvailable, lastWifiCheckTime,
                   wifiFile, env, battPct, failedUpdate>>

\* the time block of the directive is looked up
TimeSync ==
    /\ pc = "time_sync"
    /\ \E t \in TimeBlocks : loc' = [loc EXCEPT !.time = t]
    /\ Commit(Ev(Cur, "timeSync", 0, 0))
    /\ pc' = "time_apply"
    /\ UNCHANGED <<wifiReconnectAttempts, sdCardAvailable, lastWifiCheckTime,
                   wifiFile, env, battPct, failedUpdate>>

\* the clock is set from the block if it validates; timeObj then goes out of
\* scope
RtcSync ==
    /\ pc = "time_apply"
    /\ IF loc.time.present /\ syncRTCFromServerData(loc.time.obj)
       THEN Commit(Ev(Cur, "rtcSet", AsUint8(loc.time.obj.year),
                      AsUint8(loc.time.obj.month)))
       ELSE Commit(Cur)
    /\ loc' = [loc EXCEPT !.time = NO_TIME]
    /\ pc' = "url"
    /\ UNCHANGED <<wifiReconnectAttempts, sdCardAvailable, lastWifiCheckTime,
                   wifiFile, env, battPct, failedUpdate>>

\* image_url is read from the directive
ReadDirective ==
    /\ pc = "url"
    /\ \E imageUrl \in ImageUrls : loc' = [loc EXCEPT !.imageUrl = imageUrl]
    /\ Commit(Cur)
    /\ pc' = "url_check"
    /\ UNCHANGED <<wifiReconnectAttempts, sdCardAvailable, lastWifiCheckTime,
                   wifiFile, env, battPct, failedUpdate>>

\* next_wake_secs is read and the URL is classified: the sentinel, a URL to
\* download (made https), or neither
ClassifyUrl ==
    /\ pc = "url_check"
    /\ \E field \in NextWakeFields :
          LET read == Ev(Cur, "directive", IF field.present THEN 1 ELSE 0, field.value)
          IN IF IsNoRefresh(loc.imageUrl)
             THEN /\ Commit(read)
                  /\ loc' = [loc EXCEPT !.nextWakeSec = AsLong(field)]
                  /\ pc' = "schedule"
             ELSE IF ValidImageUrl(loc.imageUrl)
             THEN /\ Commit(read)
                  /\ loc' = [loc EXCEPT !.imageUrl = UpgradeUrl(loc.imageUrl),
                                        !.nextWakeSec = AsLong(field)]
                  /\ pc' = "download"
             ELSE /\ Commit(SessionError(read, 749, ERROR_SERVER_CONNECT))
                  /\ loc' = [loc EXCEPT !.nextWakeSec = AsLong(field)]
                  /\ pc' = "retry_sleep"
    /\ UNCHANGED <<wifiReconnectAttempts, sdCardAvailable, lastWifiCheckTime,
                   wifiFile, env, battPct, failedUpdate>>

\* mutant: downloadToSD restarts the device when the card is absent
DownloadStart_NoCardRestarts ==
    /\ pc = "download"
    /\ LET https == IF StartsWith(loc.imageUrl, S_HTTPS) THEN 1 ELSE 0
           called == Ev(Cur, "downloadToSD", https, 0)
       IN IF ~sdCardAvailable
          THEN /\ Commit(Ev(Ev(called, "logError", 457, 0), "restart", 457, 0))
               /\ UNCHANGED <<loc, env>>
               /\ pc' = "restarted"
          ELSE \E begun \in BOOLEAN, httpCode \in {HTTP_OK, 404, -1},
                  opened \in BOOLEAN, n \in 0..MaxChunks :
                  IF ~begun \/ httpCode # HTTP_OK \/ ~opened
                  THEN LET line == IF ~begun THEN 467
                                   ELSE IF httpCode # HTTP_OK THEN 474 ELSE 490
                       IN /\ Commit(SessionError(Ev(called, "logError", line, 0),
                                                 697, ERROR_IMAGE_DOWNLOAD))
                          /\ UNCHANGED <<loc, env>>
                          /\ pc' = "retry_sleep"
                  ELSE /\ Commit(called)
                       /\ loc' = [loc EXCEPT !.lastReadTime = millis, !.totalBytes = 0]
                       /\ env' = [env EXCEPT !.chunks = n]
                       /\ pc' = "download_loop"
    /\ UNCHANGED <<wifiReconnectAttempts, sdCardAvailable, lastWifiCheckTime,
                   wifiFile, battPct, failedUpdate>>

\* mutant: a missing card is recorded as a storage fault
DownloadStart_RecordsStorageFault ==
    /\ pc = "download"
    /\ LET https == IF StartsWith(loc.imageUrl, S_HTTPS) THEN 1 ELSE 0
           called == Ev(Cur, "downloadToSD", https, 0)
       IN IF ~sdCardAvailable
          THEN /\ Commit(SessionError(Ev(called, "logError", 457, 0),
                                      697, ERROR_SD_CARD))
               /\ UNCHANGED <<loc, env>>
               /\ pc' = "retry_sleep"
          ELSE \E begun \in BOOLEAN, httpCode \in {HTTP_OK, 404, -1},
                  opened \in BOOLEAN, n \in 0..MaxChunks :
                  IF ~begun \/ httpCode # HTTP_OK \/ ~opened
                  THEN LET line == IF ~begun THEN 467
                                   ELSE IF httpCode # HTTP_OK THEN 474 ELSE 490
                       IN /\ Commit(SessionError(Ev(called, "logError", line, 0),
                                                 697, ERROR_IMAGE_DOWNLOAD))
                          /\ UNCHANGED <<loc, env>>
                          /\ pc' = "retry_sleep"
                  ELSE /\ Commit(called)
                       /\ loc' = [loc EXCEPT !.lastReadTime = millis, !.totalBytes = 0]
                       /\ env' = [env EXCEPT !.chunks = n]
                       /\ pc' = "download_loop"
    /\ UNCHANGED <<wifiReconnectAttempts, sdCardAvailable, lastWifiCheckTime,
                   wifiFile, battPct, failedUpdate>>

\* downloadToSD up to the read loop
DownloadStart ==
    /\ pc = "download"
    /\ LET https == IF StartsWith(loc.imageUrl, S_HTTPS) THEN 1 ELSE 0
           called == Ev(Cur, "downloadToSD", https, 0)
       IN IF ~sdCardAvailable
          THEN /\ Commit(SessionError(Ev(called, "logError", 457, 0),
                                      697, ERROR_IMAGE_DOWNLOAD))
               /\ UNCHANGED <<loc, env>>
               /\ pc' = "retry_sleep"
          ELSE \E begun \in BOOLEAN, httpCode \in {HTTP_OK, 404, -1},
                  opened \in BOOLEAN, n \in 0..MaxChunks :
                  IF ~begun \/ httpCode # HTTP_OK \/ ~opened
                  THEN LET line == IF ~begun THEN 467
                                   ELSE IF httpCode # HTTP_OK THEN 474 ELSE 490
                       IN /\ Commit(SessionError(Ev(called, "logError", line, 0),
                                                 697, ERROR_IMAGE_DOWNLOAD))
                          /\ UNCHANGED <<loc, env>>
                          /\ pc' = "retry_sleep"
                  ELSE /\ Commit(called)
                       /\ loc' = [loc EXCEPT !.lastReadTime = millis, !.totalBytes = 0]
                       /\ env' = [env EXCEPT !.chunks = n]
                       /\ pc' = "download_loop"
    /\ UNCHANGED <<wifiReconnectAttempts, sdCardAvailable, lastWifiCheckTime,
                   wifiFile, battPct, failedUpdate>>

\* the stall test of the read loop
StallExpired(now, lastReadTime) == ~((now - lastReadTime) < DOWNLOAD_STALL_MS)

\* mutant: a received chunk does not reset the stall timer
DownloadPoll_NoReset ==
    /\ pc = "download_loop"
    /\ IF StallExpired(millis, loc.lastReadTime)
       THEN /\ Commit(Cur)
            /\ UNCHANGED <<loc, env>>
            /\ pc' = "download_done"
       ELSE \/ /\ env.chunks > 0
               /\ Commit(delay(Cur, 1))
               /\ loc' = [loc EXCEPT !.totalBytes = @ + ChunkBytes]
               /\ env' = [env EXCEPT !.chunks = @ - 1]
               /\ pc' = "download_loop"
            \/ /\ Commit(Cur)
               /\ env' = [env EXCEPT !.chunks = 0]
               /\ loc' = loc
               /\ pc' = "download_done"
            \/ /\ Commit(delay(Cur, StallStepMs))
               /\ UNCHANGED <<loc, env>>
               /\ pc' = "download_loop"
    /\ UNCHANGED <<wifiReconnectAttempts, sdCardAvailable, lastWifiCheckTime,
                   wifiFile, battPct, failedUpdate>>

\* one pass of the read loop: a chunk, a dropped stream, or a stalled stretch
DownloadPoll ==
    /\ pc = "download_loop"
    /\ IF StallExpired(millis, loc.lastReadTime)
       THEN /\ Commit(Cur)
            /\ UNCHANGED <<loc, env>>
            /\ pc' = "download_done"
       ELSE \/ /\ env.chunks > 0
               /\ Commit(delay(Cur, 1))
               /\ loc' = [loc EXCEPT !.lastReadTime = millis, !.totalBytes = @ + ChunkBytes]
               /\ env' = [env EXCEPT !.chunks = @ - 1]
               /\ pc' = "download_loop"
            \/ /\ Commit(Cur)
               /\ env' = [env EXCEPT !.chunks = 0]
               /\ loc' = loc
               /\ pc' = "download_done"
            \/ /\ Commit(delay(Cur, StallStepMs))
               /\ UNCHANGED <<loc, env>>
               /\ pc' = "download_loop"
    /\ UNCHANGED <<wifiReconnectAttempts, sdCardAvailable, lastWifiCheckTime,
                   wifiFile, battPct, failedUpdate>>

\* mutant: the image is rendered whatever downloadToSD returned
DownloadDone_IgnoresResult ==
    /\ pc = "download_done"
    /\ Commit(setState(Cur, STATE_DISPLAYING_IMAGE, ERROR_NONE))
    /\ pc' = "render"
    /\ UNCHANGED <<wifiReconnectAttempts, sdCardAvailable, lastWifiCheckTime,
                   wifiFile, loc, env, battPct, failedUpdate>>

\* return (totalBytes > 0), and the caller's test
DownloadDone ==
    /\ pc = "download_done"
    /\ IF loc.totalBytes > 0
       THEN /\ Commit(setState(Cur, STATE_DISPLAYING_IMAGE, ERROR_NONE))
            /\ pc' = "render"
       ELSE /\ Commit(SessionError(Cur, 697, ERROR_IMAGE_DOWNLOAD))
            /\ pc' = "retry_sleep"
    /\ UNCHANGED <<wifiReconnectAttempts, sdCardAvailable, lastWifiCheckTime,
                   wifiFile, loc, env, battPct, failedUpdate>>

\* mutant: the panel is refreshed with the image although drawImage failed
Render_RefreshesOnFailure ==
    /\ pc = "render"
    /\ \E ok \in BOOLEAN :
          IF ok
          THEN /\ Commit(Ev(Ev(Cur, "drawImage", 1, 0), "display", 742, 0))
               /\ pc' = "schedule"
          ELSE /\ Commit(SessionError(Ev(Ev(Cur, "drawImage", 0, 0), "display", 742, 0),
                                      722, ERROR_IMAGE_DOWNLOAD))
               /\ pc' = "retry_sleep"
    /\ UNCHANGED <<wifiReconnectAttempts, sdCardAvailable, lastWifiCheckTime,
                   wifiFile, loc, env, battPct, failedUpdate>>

\* display.drawImage, then display.display
Render ==
    /\ pc = "render"
    /\ \E ok \in BOOLEAN :
          IF ok
          THEN /\ Commit(Ev(Ev(Cur, "drawImage", 1, 0), "display", 742, 0))
               /\ pc' = "schedule"
          ELSE /\ Commit(SessionError(Ev(Cur, "drawImage", 0, 0), 722, ERROR_IMAGE_DOWNLOAD))
               /\ pc' = "retry_sleep"
    /\ UNCHANGED <<wifiReconnectAttempts, sdCardAvailable, lastWifiCheckTime,
                   wifiFile, loc, env, battPct, failedUpdate>>

\* clamp, persist sleep.nextWake, arm both wake sources
Schedule ==
    /\ pc = "schedule"
    /\ LET nextWakeSec == ClampWake(loc.nextWakeSec)
           m1 == Ev([Cur EXCEPT !.prefs.nextWake = nextWakeSec], "putNextWake", nextWakeSec, 0)
       IN /\ Commit(armExt0(armTimer(m1, nextWakeSec)))
          /\ loc' = [loc EXCEPT !.nextWakeSec = nextWakeSec]
    /\ pc' = "sleeping"
    /\ UNCHANGED <<wifiReconnectAttempts, sdCardAvailable, lastWifiCheckTime,
                   wifiFile, env, battPct, failedUpdate>>

\* mutant: the radio is shut down before Sleeping is recorded
SuccessSleep_RadioFirst ==
    /\ pc = "sleeping"
    /\ Commit(delay(setState(wifiShutdown(Cur), STATE_SLEEPING, ERROR_NONE), 1000))
    /\ pc' = "sd_sleep"
    /\ UNCHANGED <<wifiReconnectAttempts, sdCardAvailable, lastWifiCheckTime,
                   wifiFile, loc, env, battPct, failedUpdate>>

\* setState(Sleeping), radio off
SuccessSleep ==
    /\ pc = "sleeping"
    /\ Commit(delay(wifiShutdown(setState(Cur, STATE_SLEEPING, ERROR_NONE)), 1000))
    /\ pc' = "sd_sleep"
    /\ UNCHANGED <<wifiReconnectAttempts, sdCardAvailable, lastWifiCheckTime,
                   wifiFile, loc, env, battPct, failedUpdate>>

\* mutant: the tail shared by every session failure restarts the device
RetrySleep_Restarts ==
    /\ pc = "retry_sleep"
    /\ Commit(Ev(delay(Cur, 1000), "restart", 764, 0))
    /\ pc' = "restarted"
    /\ UNCHANGED <<wifiReconnectAttempts, sdCardAvailable, lastWifiCheckTime,
                   wifiFile, loc, env, battPct, failedUpdate>>

\* the tail shared by every session failure: one minute timer, Sleeping, radio off
RetrySleep ==
    /\ pc = "retry_sleep"
    /\ Commit(delay(wifiShutdown(setState(armExt0(armTimer(Cur, RETRY_SLEEP_SECS)),
                                          STATE_SLEEPING, ERROR_NONE)), 1000))
    /\ pc' = "sd_sleep"
    /\ UNCHANGED <<wifiReconnectAttempts, sdCardAvailable, lastWifiCheckTime,
                   wifiFile, loc, env, battPct, failedUpdate>>

\* ------------------------------------------------------------- between boots
\* mutant: the reconnect failure counter survives the reset
ResetRam_KeepsCounter ==
    /\ pc' = "setup"
    /\ currentState' = STATE_INITIALIZING
    /\ errorCode' = ERROR_NONE
    /\ wifiReconnectAttempts' = wifiReconnectAttempts
    /\ sdCardAvailable' = FALSE
    /\ stateChangeTime' = 0
    /\ lastWifiCheckTime' = 0
    /\ millis' = 0
    /\ radio' = "off"
    /\ timerWakeup' = 0
    /\ ext0Wakeup' = FALSE
    /\ loc' = InitLoc
    /\ env' = InitEnv
    /\ trace' = << >>
    /\ battPct' = -1
    /\ UNCHANGED <<prefs, lastSet>>

\* RAM, radio and wake configuration do not survive; the stores do
ResetRam ==
    /\ pc' = "setup"
    /\ currentState' = STATE_INITIALIZING
    /\ errorCode' = ERROR_NONE
    /\ wifiReconnectAttempts' = 0
    /\ sdCardAvailable' = FALSE
    /\ stateChangeTime' = 0
    /\ lastWifiCheckTime' = 0
    /\ millis' = 0
    /\ radio' = "off"
    /\ timerWakeup' = 0
    /\ ext0Wakeup' = FALSE
    /\ loc' = InitLoc
    /\ env' = InitEnv
    /\ trace' = << >>
    /\ battPct' = -1
    /\ UNCHANGED <<prefs, lastSet>>

\* the timer fires or the button is pressed; the card may have been changed
Wake ==
    /\ pc = "deep_sleep"
    /\ ResetRam
    /\ wifiFile' \in WifiFiles
    /\ failedUpdate' = FALSE

\* ESP.restart()
Reboot ==
    /\ pc = "restarted"
    /\ ResetRam
    /\ UNCHANGED <<wifiFile, failedUpdate>>

\* ---------------------------------------------------------------------- Next
\* one boot, from setup() to deep sleep or restart
BootStep ==
    \/ SetupBegin
    \/ BatteryCheck
    \/ BatterySleep
    \/ ResolveCredentials
    \/ NoCredentials
    \/ ConnectBegin
    \/ ConnectPoll
    \/ ConnectDone
    \/ ConnectFailedSleep
    \/ RcEntry
    \/ RcPoll
    \/ OtaBegin
    \/ OtaVersionCheck
    \/ OtaHttp
    \/ OtaHttps
    \/ OtaResult
    \/ FetchBegin
    \/ FetchWifiChecked
    \/ Post
    \/ Parse
    \/ TimeSync
    \/ RtcSync
    \/ ReadDirective
    \/ ClassifyUrl
    \/ DownloadStart
    \/ DownloadPoll
    \/ DownloadDone
    \/ Render
    \/ Schedule
    \/ SuccessSleep
    \/ RetrySleep
    \/ EnterDeepSleep

Next ==
    \/ BootStep
    \/ Wake
    \/ Reboot

Spec == Init /\ [][Next]_vars

\* one boot under the scheduling the code has: it runs until it sleeps or restarts
BootSpec == Init /\ [][BootStep]_vars /\ WF_vars(BootStep)

\* the device's life under the same scheduling: a boot runs to its end, a
\* restart boots again, a sleeping device wakes by timer or button
LifeSpec == Init /\ [][Next]_vars /\ WF_vars(Next)

\* ------------------------------------------------- the battery reading alone
\* the readings display.readBattery() is given, in millivolts
VoltGridMin == 3000
VoltGridStep == 10
VoltGridSteps == 140
VoltGrid ==
    {VoltGridMin + VoltGridStep * k : k \in 0..VoltGridSteps}
        \cup {3199, 3201, 4199, 4201}

\* before the first reading
ReadingInit ==
    /\ pc = "read_battery"
    /\ currentState = STATE_INITIALIZING
    /\ errorCode = ERROR_NONE
    /\ wifiReconnectAttempts = 0
    /\ sdCardAvailable = FALSE
    /\ stateChangeTime = 0
    /\ lastWifiCheckTime = 0
    /\ millis = 0
    /\ prefs = [lastState |-> -1, errorCode |-> -1, ssid |-> << >>,
                password |-> << >>, nextWake |-> -1]
    /\ wifiFile \in WifiFiles
    /\ radio = "off"
    /\ timerWakeup = 0
    /\ ext0Wakeup = FALSE
    /\ loc = InitLoc
    /\ env = InitEnv
    /\ trace = << >>
    /\ lastSet = <<-1, -1>>
    /\ battPct = -1
    /\ failedUpdate = FALSE

\* voltage = display.readBattery(); batteryPercent = voltageToPercent(voltage)
ReadBattery ==
    /\ pc \in {"read_battery", "battery_read"}
    /\ \E mv \in VoltGrid :
          /\ loc' = [loc EXCEPT !.voltage = mv]
          /\ battPct' = voltageToPercent(mv)
    /\ pc' = "battery_read"
    /\ Commit(Cur)
    /\ UNCHANGED <<wifiReconnectAttempts, sdCardAvailable, lastWifiCheckTime,
                   wifiFile, env, failedUpdate>>

ReadingSpec == ReadingInit /\ [][ReadBattery]_vars

\* ==================================================================== claims
Has(kind) == \E i \in DOMAIN trace : trace[i][1] = kind
HasEv(e) == \E i \in DOMAIN trace : trace[i] = e
Last(kind) == CHOOSE i \in DOMAIN trace :
                 /\ trace[i][1] = kind
                 /\ \A j \in (i + 1)..Len(trace) : trace[j][1] # kind
Ended == pc \in {"deep_sleep", "restarted"}

\* C1: every boot cycle terminates: setup() reaches esp_deep_sleep_start() or
\* ESP.restart(); it never stays awake.
C1_BootTerminates == <>Ended

\* a boot whose download stalled until the read loop gave up, now asleep
C1_Witness ==
    /\ pc = "deep_sleep"
    /\ Has("downloadToSD")
    /\ loc.lastReadTime > 0
    /\ millis - loc.lastReadTime >= 16000

\* C2: with a sampled battery percent below 5 the check comes before any radio
\* use, the boot makes no Wi-Fi connection attempt, update check, telemetry
\* POST or download, BatteryCritical is recorded, and deep sleep is entered
\* with the timer armed for 3600 seconds.
C2_BatteryGate ==
    /\ pc \in {"setup", "battery"} => radio = "off" /\ ~Has("wifiBegin") /\ ~Has("wifiOff")
    /\ (battPct >= 0 /\ battPct < 50) =>
          /\ pc \in {"battery_sleep", "sd_sleep", "deep_sleep"}
          /\ ~Has("wifiBegin") /\ ~Has("versionGet") /\ ~Has("update")
          /\ ~Has("post") /\ ~Has("downloadToSD")
          /\ HasEv(<<"setState", 7, 6>>)
          /\ pc = "deep_sleep" => timerWakeup = 3600 /\ HasEv(<<"timer", 3600, 0>>)

C2_Witness == pc = "deep_sleep" /\ battPct = 49

\* C3: once setState(s, e) has persisted, the store holds state.lastState = s
\* and state.errorCode = e, until the next setState (also across a boot).
C3_BreadcrumbIsLastSetState ==
    lastSet[1] >= 0 => prefs.lastState = lastSet[1] /\ prefs.errorCode = lastSet[2]

\* the error code of the failure this boot goes to sleep on (a failed update
\* is not one: the boot continues after it)
FailureCodes ==
    {trace[i][3] : i \in {j \in DOMAIN trace :
                            /\ trace[j][1] = "setState"
                            /\ trace[j][2] = 7
                            /\ trace[j][3] # 5}}

\* C4: on every path where a failure is recorded and deep sleep follows, the
\* breadcrumb at the entry to deep sleep holds Error and that failure's code.
C4_ErrorBreadcrumbAtSleep ==
    (pc = "deep_sleep" /\ FailureCodes # {}) =>
        /\ prefs.lastState = 7
        /\ prefs.errorCode \in FailureCodes

\* the server's next_wake_secs as the code reads it (a missing field reads 0)
ServerWake == LET d == trace[Last("directive")] IN IF d[2] = 1 THEN d[3] ELSE 0
ExpectedWake ==
    LET w == ServerWake IN IF w < 60 THEN 60 ELSE IF w > 86400 THEN 86400 ELSE w
Rendered == HasEv(<<"display", 742, 0>>)
NoRefresh == loc.imageUrl = S_NO_REFRESH /\ Has("directive")

C6_BothWakeSourcesArmed ==
    pc = "deep_sleep" =>
        /\ timerWakeup > 0
        /\ ext0Wakeup
        /\ Has("timer")
        /\ HasEv(<<"ext0", 36, 0>>)

C6_Witness == pc = "deep_sleep" /\ timerWakeup = 300 /\ ~Has("wifiBegin")

\* C7: at every entry to deep sleep the radio is off: if it was started in that
\* boot, a shutdown follows its last start.
C7_RadioOffAtSleep ==
    pc = "deep_sleep" =>
        /\ radio = "off"
        /\ Has("wifiBegin") => Has("wifiOff") /\ Last("wifiOff") > Last("wifiBegin")

\* C8 as stated: with image_url NO_REFRESH neither downloadToSD nor
\* drawImage/display is invoked in that boot, DisplayingImage is not entered,
\* and control proceeds to sleep scheduling with the clamped interval.
C8_NoRefreshNoDisplayAtAll ==
    NoRefresh =>
        /\ ~Has("downloadToSD") /\ ~Has("drawImage") /\ ~Has("display")
        /\ ~HasEv(<<"setState", 6, 0>>)
        /\ pc \in {"schedule", "sleeping", "sd_sleep", "deep_sleep"}
        /\ pc # "schedule" => timerWakeup = ExpectedWake

\* C8 amended: with image_url NO_REFRESH neither downloadToSD nor drawImage is
\* invoked, the image is not refreshed onto the panel (the only panel refresh
\* a NO_REFRESH boot can contain is the error screen setState draws for a
\* failed firmware update), DisplayingImage is not entered, and control
\* proceeds to sleep scheduling with the clamped interval.
C8_NoRefreshSkipsImage ==
    NoRefresh =>
        /\ ~Has("downloadToSD") /\ ~Has("drawImage")
        /\ \A i \in DOMAIN trace :
              trace[i][1] = "display" =>
                  /\ trace[i] = <<"display", 196, 0>>
                  /\ i > 1
                  /\ trace[i - 1] = <<"setState", 7, 5>>
        /\ ~HasEv(<<"setState", 6, 0>>)
        /\ pc \in {"schedule", "sleeping", "sd_sleep", "deep_sleep"}
        /\ pc # "schedule" => timerWakeup = ExpectedWake

C8_Witness ==
    /\ NoRefresh
    /\ pc = "deep_sleep"
    /\ Has("display")
    /\ ServerWake = 45
    /\ timerWakeup = 60

\* the telemetry POST failed: http.begin failed, or the status was not 200
PostFailed == HasEv(<<"logError", 556, 0>>) \/ HasEv(<<"logError", 603, 0>>)

\* C9: a failed telemetry POST records Error with ServerConnect, arms the
\* 60-second retry timer and leads to deep sleep; no restart, download or
\* render happens on this path.
C9_PostFailureSleeps ==
    PostFailed =>
        /\ HasEv(<<"setState", 7, 2>>)
        /\ pc \in {"retry_sleep", "sd_sleep", "deep_sleep"}
        /\ pc # "retry_sleep" => timerWakeup = 60 /\ ext0Wakeup
        /\ ~Has("restart")
        /\ ~Has("downloadToSD") /\ ~Has("drawImage")

C9_Witness == pc = "deep_sleep" /\ HasEv(<<"logError", 603, 0>>) /\ timerWakeup = 60

\* C10: an unparseable 200 body is a ServerConnect failure that resolves to
\* the 60-second retry sleep; no restart, clock sync, download or render.
C10_ParseFailureSleeps ==
    HasEv(<<"logError", 632, 0>>) =>
        /\ HasEv(<<"setState", 7, 2>>)
        /\ pc \in {"retry_sleep", "sd_sleep", "deep_sleep"}
        /\ pc # "retry_sleep" => timerWakeup = 60 /\ ext0Wakeup
        /\ ~Has("restart")
        /\ ~Has("timeSync") /\ ~Has("rtcSet")
        /\ ~Has("downloadToSD") /\ ~Has("drawImage")

C10_Witness == pc = "deep_sleep" /\ HasEv(<<"logError", 632, 0>>) /\ timerWakeup = 60

\* the download failed (downloadToSD returned false); the cause is the line of
\* the error it logged, or a stream that delivered no byte
DownloadFailed == HasEv(<<"logError", 697, 0>>)
DownloadNon200 == HasEv(<<"logError", 474, 0>>)
DownloadZeroBytes ==
    /\ DownloadFailed
    /\ loc.lastReadTime > 0
    /\ loc.totalBytes = 0
RenderFailed == HasEv(<<"logError", 722, 0>>)

\* the failure is recorded as Error/ImageDownload and the boot takes the
\* 60-second retry sleep without restarting
ImageFailureSleeps ==
    /\ HasEv(<<"setState", 7, 3>>)
    /\ pc \in {"retry_sleep", "sd_sleep", "deep_sleep"}
    /\ pc # "retry_sleep" => timerWakeup = 60 /\ ext0Wakeup
    /\ ~Has("restart")

\* C11 as stated: a download that returns a non-200 status or yields zero
\* bytes, and a drawImage failure, are each recorded as Error/ImageDownload
\* and resolve to the 60-second retry sleep without restart; on a render
\* failure display.display is not triggered and sleep.nextWake is not written.
C11_RenderFailureNoDisplayAtAll ==
    /\ (DownloadFailed \/ RenderFailed) => ImageFailureSleeps
    /\ RenderFailed => ~Has("display") /\ ~Has("putNextWake")

\* a failed download or render sleeps for a minute; after a failed render the
\* only refresh is the error screen
ImageFailureHandled ==
    LET renderFailed == RenderFailed
    IN
    /\ (renderFailed \/ DownloadFailed) => ImageFailureSleeps
    /\ renderFailed =>
          /\ ~Rendered
          /\ \A i \in DOMAIN trace :
                trace[i][1] = "display" =>
                    /\ trace[i] = <<"display", 196, 0>>
                    /\ i > 1
                    /\ trace[i - 1][1] = "setState" /\ trace[i - 1][2] = 7
          /\ HasEv(<<"display", 196, 0>>)
          /\ ~Has("putNextWake")

\* C11 amended: as above, but on a render failure it is the image refresh
\* (the display.display that follows drawImage) that is not triggered: the
\* panel is refreshed with the error screen that setState(Error, ...) draws,
\* and with nothing else; sleep.nextWake is not written.
C11_ImageFailureSleeps == []ImageFailureHandled

C11_Witness ==
    /\ pc = "deep_sleep"
    /\ RenderFailed
    /\ timerWakeup = 60
    /\ HasEv(<<"display", 196, 0>>)

\* the other two cases of C11 reach deep sleep as well
C11_WitnessNon200 == pc = "deep_sleep" /\ DownloadNon200 /\ timerWakeup = 60
C11_WitnessZeroBytes == pc = "deep_sleep" /\ DownloadZeroBytes /\ timerWakeup = 60

\* checkAndReconnectWifi returned false to fetchAndDisplayImage, and the test of
\* its result has run
EnsureConnectedFailed ==
    /\ loc.rcCaller = "fetch"
    /\ ~loc.rcResult
    /\ pc \notin {"rc_entry", "rc_loop", "fetch_wifi_checked"}

\* C12: if checkAndReconnectWifi returns false at the start of the display
\* session, Error/WifiConnect is recorded and the device restarts; no wake
\* timer is armed, deep sleep is not entered and no telemetry POST is sent.
C12_NoLinkRestarts ==
    /\ EnsureConnectedFailed =>
          /\ pc = "restarted"
          /\ trace[Len(trace)] = <<"restart", 534, 0>>
          /\ \E i \in DOMAIN trace :
                /\ trace[i] = <<"setState", 7, 1>>
                /\ \A j \in DOMAIN trace : trace[j] = <<"setState", 5, 0>> => j < i
          /\ ~Has("timer") /\ timerWakeup = 0 /\ ~ext0Wakeup
          /\ ~Has("deepSleep")
          /\ ~Has("post")
    /\ HasEv(<<"restart", 534, 0>>) => EnsureConnectedFailed

C12_Witness ==
    /\ pc = "restarted"
    /\ EnsureConnectedFailed
    /\ HasEv(<<"setState", 7, 1>>)
    /\ Has("versionGet")

\* the manifest GET returned 200 and its trimmed body is the compiled-in version
ManifestSame == HasEv(<<"versionGet", 1, 1>>)

\* C13: if the manifest GET returns 200 with a body that, trimmed, equals the
\* compiled-in version, UpdatingFirmware is never entered, no update call is
\* made on either transport, and the next lifecycle state is FetchingImage.
C13_SameVersionNoUpdate ==
    ManifestSame =>
        /\ ~HasEv(<<"setState", 4, 0>>)
        /\ ~Has("update")
        /\ pc \notin {"ota_http", "ota_https", "ota_result"}
        /\ LET i == Last("versionGet")
           IN IF i = Len(trace) THEN pc = "fetch_begin"
              ELSE trace[i + 1] = <<"setState", 5, 0>>

C13_Witness ==
    /\ ManifestSame
    /\ currentState = 5
    /\ pc = "post"

\* the manifest GET returned 200 and its trimmed body is not the compiled-in version
ManifestDiffers == HasEv(<<"versionGet", 1, 0>>)

\* positions in the trace of the update calls over the given transport
\* (0 insecure, 1 secure)
UpdateCalls(transport) ==
    {i \in DOMAIN trace : trace[i][1] = "update" /\ trace[i][2] = transport}

\* the update calls made so far: insecure first, secure only after its failure
InsecureFirst ==
    LET insecure == UpdateCalls(0)
        secure == UpdateCalls(1)
        differs == ManifestDiffers
    IN /\ (insecure # {} \/ secure # {}) => differs
       /\ (differs /\ pc # "ota_http") => Cardinality(insecure) = 1
       /\ Cardinality(secure) <= 1
       /\ \A j \in secure :
             \E i \in insecure : i < j /\ trace[i][3] = HTTP_UPDATE_FAILED
       /\ \A i \in insecure :
             (trace[i][3] = HTTP_UPDATE_FAILED /\ pc # "ota_https") => secure # {}

\* C14: on any version mismatch, newer or older, the update is attempted over
\* the insecure transport first, and over the secure transport if and only if
\* the insecure attempt returned failure; the secure attempt never precedes or
\* replaces the insecure one.
C14_InsecureFirstSecureFallback == []InsecureFirst

\* an older manifest version: the insecure attempt failed, the secure one ran
C14_Witness ==
    /\ loc.newVersion = <<"1", ".", "7">>
    /\ HasEv(<<"update", 0, 0>>)
    /\ HasEv(<<"update", 1, 1>>)
    /\ pc = "ota_result"

\* a newer manifest version: the insecure attempt did not fail, no secure one
C14_WitnessNoFallback ==
    /\ loc.newVersion = <<"1", ".", "9">>
    /\ HasEv(<<"update", 0, 1>>)
    /\ UpdateCalls(1) = {}
    /\ pc = "ota_result"

\* an update call returned HTTP_UPDATE_OK
UpdateOk == \E i \in DOMAIN trace : trace[i][1] = "update" /\ trace[i][3] = HTTP_UPDATE_OK

\* C15: if a firmware update succeeds, on either transport, the device
\* restarts: FetchingImage is not entered and no deep sleep is scheduled in
\* that boot.
C15_UpdateOkRestarts ==
    UpdateOk =>
        /\ pc \in {"ota_result", "restarted"}
        /\ pc = "restarted" => trace[Len(trace)] = <<"restart", 937, 0>>
        /\ ~HasEv(<<"setState", 5, 0>>)
        /\ ~Has("timer") /\ timerWakeup = 0
        /\ ~HasEv(<<"setState", 8, 0>>)
        /\ ~Has("deepSleep")

\* the secure fallback succeeded and the device restarted
C15_Witness ==
    /\ pc = "restarted"
    /\ HasEv(<<"update", 0, 0>>)
    /\ HasEv(<<"update", 1, 2>>)

\* the insecure attempt succeeded and the device restarted
C15_WitnessInsecure == pc = "restarted" /\ HasEv(<<"update", 0, 2>>)

\* the update failed on both transports
UpdateFailedTwice == HasEv(<<"update", 0, 0>>) /\ HasEv(<<"update", 1, 0>>)

\* C16: if the update fails on both transports, Error/UpdateFailed is recorded
\* and the same boot continues to the display session; the failure itself
\* neither restarts the device nor sends it to sleep.
C16_UpdateFailureContinues ==
    /\ HasEv(<<"setState", 7, 5>>) => UpdateFailedTwice
    /\ (UpdateFailedTwice /\ pc # "ota_result") =>
          /\ HasEv(<<"setState", 7, 5>>)
          /\ ~HasEv(<<"restart", 937, 0>>)
          /\ LET f == CHOOSE k \in DOMAIN trace : trace[k] = <<"setState", 7, 5>>
            IN /\ trace[f + 1] = <<"display", 196, 0>>
               /\ IF Len(trace) = f + 1 THEN pc = "fetch_begin"
                  ELSE trace[f + 2] = <<"setState", 5, 0>>
               /\ \A k \in DOMAIN trace :
                     trace[k][1] \in {"timer", "deepSleep", "restart"} => k > f + 2

\* after the failed update the boot went on to fetch and show the image
C16_Witness ==
    /\ UpdateFailedTwice
    /\ pc = "deep_sleep"
    /\ Rendered

\* a step that makes the first update call of an update application
UpdateApplied == pc = "ota_http" /\ pc' \in {"ota_https", "ota_result"}

\* C17: a failed firmware update is not retried within the same wake cycle:
\* between two consecutive entries to deep sleep at most one update
\* application is performed, also when a restart re-runs the boot sequence.
C17_FailedUpdateNotRetried == [][UpdateApplied => ~failedUpdate]_vars

\* the card is readable and holds the well-formed wifi.txt, whose values are
\* NETWORK "n1" and PASSWORD "p1"
ValidOverride ==
    /\ sdCardAvailable
    /\ wifiFile.exists
    /\ wifiFile.content = FILE_VALID

\* the store's credentials are those of the well-formed wifi.txt
StoreHoldsOverride ==
    /\ prefs.ssid = <<"n", "1">>
    /\ prefs.password = <<"p", "1">>

\* C18: with a valid override file and different credentials in the store,
\* resolution returns the file's values and leaves wifi.ssid/wifi.password
\* equal to them; resolving again with unchanged inputs returns the same
\* values and leaves the store unchanged.
C18_OverridePriorityIdempotent ==
    [][/\ (pc = "credentials" /\ ValidOverride) =>
            /\ pc' = "connect"
            /\ loc'.ssid = <<"n", "1">>
            /\ loc'.password = <<"p", "1">>
            /\ StoreHoldsOverride'
       /\ (pc = "rc_entry" /\ pc' = "rc_loop" /\ ValidOverride) =>
            /\ StoreHoldsOverride
            /\ StoreHoldsOverride'
       /\ (pc \in {"credentials", "rc_entry"} /\ ValidOverride /\ StoreHoldsOverride) =>
            /\ prefs'.ssid = prefs.ssid
            /\ prefs'.password = prefs.password]_vars

\* the second resolution of a boot (in checkAndReconnectWifi) has run with the
\* same file as the first (in setup), and the store holds the file's values
C18_Witness ==
    /\ pc = "rc_loop"
    /\ ValidOverride
    /\ loc.ssid = <<"n", "1">>
    /\ loc.password = <<"p", "1">>
    /\ StoreHoldsOverride

\* the first resolution of the first boot: the store held "hm"/"pw" or nothing
C18_WitnessFirst ==
    /\ pc = "connect"
    /\ lastSet = <<-1, -1>>
    /\ ValidOverride
    /\ loc.ssid = <<"n", "1">>
    /\ StoreHoldsOverride

\* C19: credential resolution either yields credentials whose network name
\* is non-empty or reports NotFound, and it reports NotFound only when neither
\* wifi.txt nor the store yields a non-empty network name (a file that is
\* absent, malformed or has an empty network name falls back to the store).
C19_NonEmptyNameOrNotFound ==
    [][(pc = "credentials") =>
          /\ pc' = "connect" => loc'.ssid # << >>
          /\ pc' = "no_credentials" =>
                /\ prefs.ssid = << >>
                /\ ~ValidOverride
          /\ (prefs.ssid # << >> /\ ~ValidOverride) =>
                /\ pc' = "connect"
                /\ loc'.ssid = prefs.ssid
                /\ loc'.password = prefs.password]_vars

\* checkAndReconnectWifi found the radio disconnected and returned false at
\* the cool-down test, touching nothing
ReconnectSkipped ==
    /\ pc = "rc_entry"
    /\ pc' = RcReturnPc
    /\ ~loc'.rcResult
    /\ lastWifiCheckTime' = lastWifiCheckTime

\* checkAndReconnectWifi has made a reconnect attempt in this boot, less than
\* the cool-down ago (millis() is above 0 at every call, so lastWifiCheckTime
\* is above 0 exactly when an attempt was made)
AttemptedWithinCoolDown ==
    /\ lastWifiCheckTime > 0
    /\ millis - lastWifiCheckTime < WIFI_CHECK_INTERVAL

\* C20: with the radio disconnected, checkAndReconnectWifi skips the
\* reconnect (returns false without touching radio, credentials or lifecycle
\* state) only if a previous reconnect attempt was made less than 60 seconds
\* ago; whenever none was made within the last 60 seconds it makes a real
\* attempt.
C20_SkipOnlyInsideCoolDown ==
    [][/\ ReconnectSkipped =>
            /\ AttemptedWithinCoolDown
            /\ UNCHANGED <<radio, prefs, currentState>>
       /\ (pc = "rc_entry" /\ ~AttemptedWithinCoolDown
            /\ ~(pc' = RcReturnPc /\ loc'.rcResult)) =>
            lastWifiCheckTime' = millis]_vars

\* checkAndReconnectWifi returned true from its first test
ConnectedReturn ==
    /\ pc = "rc_entry"
    /\ pc' = RcReturnPc
    /\ loc'.rcResult

\* C21: when the radio is already connected, checkAndReconnectWifi returns
\* true at once, sets the retry counter to 0 and changes nothing else: no
\* credential resolution, no write to the store, no change of the lifecycle
\* state or of the last-attempt time.
C21_ConnectedPathTouchesNothing ==
    [][ConnectedReturn =>
          /\ wifiReconnectAttempts' = 0
          /\ loc' = [loc EXCEPT !.rcResult = TRUE]
          /\ UNCHANGED <<currentState, errorCode, sdCardAvailable, stateChangeTime,
                         lastWifiCheckTime, millis, prefs, wifiFile, radio,
                         timerWakeup, ext0Wakeup, trace, lastSet>>]_vars

\* the call from fetchAndDisplayImage returned true without any attempt
\* having been made in this boot
C21_Witness ==
    /\ pc = "fetch_wifi_checked"
    /\ loc.rcResult
    /\ wifiReconnectAttempts = 0
    /\ lastWifiCheckTime = 0
    /\ currentState = 5

\* the directive's time object has all seven fields, every one in range
TimeBlockValid(t) ==
    /\ t.present
    /\ {"year", "month", "day", "weekday", "hour", "minute", "second"} \subseteq DOMAIN t.obj
    /\ t.obj.year \in 23..99
    /\ t.obj.month \in 1..12
    /\ t.obj.day \in 1..31
    /\ t.obj.weekday \in 1..7
    /\ t.obj.hour <= 23
    /\ t.obj.minute <= 59
    /\ t.obj.second <= 59

\* C23: the calendar clock is set from the directive if and only if the time
\* object is present, has all seven fields and every field is in range;
\* otherwise the clock is left unchanged, and in both cases the session
\* continues to the image step: no error state, sleep or restart.
C23_ClockSetIffValid ==
    [][pc = "time_apply" =>
          /\ IF TimeBlockValid(loc.time)
             THEN /\ Len(trace') = Len(trace) + 1
                  /\ trace'[Len(trace')] = <<"rtcSet", loc.time.obj.year, loc.time.obj.month>>
             ELSE trace' = trace
          /\ pc' = "url"
          /\ UNCHANGED <<currentState, errorCode, prefs, timerWakeup, radio>>]_vars

\* the session events of one boot and the positions at which each occurred
SessionEvents == {"post", "parse", "downloadToSD", "drawImage", "putNextWake"}
Pos(kind) == {i \in DOMAIN trace : trace[i][1] = kind}
Precedes(P, Q) == P # {} /\ \A i \in P, j \in Q : i < j

\* the session events of the boot so far are in order, each at most once
SessionOrdered ==
    LET session == {i \in DOMAIN trace : trace[i][1] \in SessionEvents}
        post == {i \in session : trace[i][1] = "post"}
        parse == {i \in session : trace[i][1] = "parse"}
        download == {i \in session : trace[i][1] = "downloadToSD"}
        draw == {i \in session : trace[i][1] = "drawImage"}
        put == {i \in session : trace[i][1] = "putNextWake"}
    IN /\ \A P \in {post, parse, download, draw, put} : Cardinality(P) <= 1
       /\ post # {} => ~EnsureConnectedFailed
       /\ parse # {} => Precedes(post, parse) /\ ~PostFailed
       /\ download # {} =>
             /\ Precedes(parse, download)
             /\ \A i \in parse : trace[i] = <<"parse", 1, 0>>
       /\ draw # {} =>
             /\ Precedes(download, draw)
             /\ ~DownloadFailed
             /\ loc.totalBytes > 0
       /\ put # {} =>
             /\ Precedes(parse, put)
             /\ \A i \in parse : trace[i] = <<"parse", 1, 0>>
             /\ IF NoRefresh
                THEN download = {} /\ draw = {}
                ELSE /\ Precedes(draw, put)
                     /\ \A i \in draw : trace[i] = <<"drawImage", 1, 0>>

\* C24: within one boot the session events occur only in the order telemetry
\* POST, directive parsing, image download, render, persistence of
\* sleep.nextWake; an event occurs only after every earlier event that applies
\* to the path has completed successfully, and at most once per boot.
C24_SessionOrder == []SessionOrdered

\* a boot that went through all five events, now asleep
C24_Witness ==
    /\ pc = "deep_sleep"
    /\ \A k \in SessionEvents : Cardinality(Pos(k)) = 1
    /\ Precedes(Pos("post"), Pos("parse"))
    /\ Precedes(Pos("parse"), Pos("downloadToSD"))
    /\ Precedes(Pos("downloadToSD"), Pos("drawImage"))
    /\ Precedes(Pos("drawImage"), Pos("putNextWake"))

\* a boot whose SD initialisation failed
SdAbsent == pc # "setup" /\ ~sdCardAvailable

\* what holds in every state of a boot without the card
SdAbsentSafe ==
    /\ Has("wifiBegin") => loc.ssid = prefs.ssid /\ loc.password = prefs.password
    /\ pc = "restarted" => EnsureConnectedFailed \/ UpdateOk
    /\ Has("downloadToSD") =>
          /\ HasEv(<<"logError", 457, 0>>)
          /\ ~Has("drawImage")
          /\ pc \in {"retry_sleep", "sd_sleep", "deep_sleep"}
    /\ pc = "deep_sleep" =>
          /\ timerWakeup > 0
          /\ Has("post") => \/ NoRefresh /\ Has("putNextWake")
                            \/ timerWakeup = RETRY_SLEEP_SECS

\* C25: with the SD card absent for a whole boot, logging does not alter
\* control flow, credentials come from the persistent store (which is left
\* as it was), and the boot still ends: in deep sleep through a completed
\* cycle or the retry sleep, or by a restart whose cause is connectivity or an
\* applied update, never storage; it does not hang.
C25_StorageAbsenceHarmless ==
    /\ [](SdAbsent => SdAbsentSafe)
    /\ [][SdAbsent => prefs.ssid' = prefs.ssid /\ prefs.password' = prefs.password]_vars
    /\ (SdAbsent ~> Ended)

\* a boot without the card that asked for a download and took the retry sleep
C25_Witness ==
    /\ SdAbsent
    /\ pc = "deep_sleep"
    /\ HasEv(<<"logError", 457, 0>>)
    /\ timerWakeup = RETRY_SLEEP_SECS
    /\ loc.ssid = prefs.ssid

\* the setState calls of this boot at positions i < j with none in between
ConsecutiveSetStates(i, j) ==
    /\ i < j
    /\ trace[i][1] = "setState"
    /\ trace[j][1] = "setState"
    /\ \A k \in (i + 1)..(j - 1) : trace[k][1] # "setState"

\* the state that follows every entry to Error is Sleeping
ErrorLeadsToSleeping ==
    \A i, j \in DOMAIN trace :
        ConsecutiveSetStates(i, j) /\ trace[i][2] = STATE_ERROR =>
            trace[j][2] = STATE_SLEEPING

\* deep sleep is not entered with Error as the state in RAM
NoDeepSleepInError == pc = "deep_sleep" => currentState # STATE_ERROR

\* C26: when the controller enters Error, the next lifecycle event is a
\* transition to Sleeping followed by deep sleep, or a restart: Error is never
\* followed by a working state, and deep sleep is never entered while the
\* state in RAM is still Error.
C26_ErrorIsTerminal == ErrorLeadsToSleeping /\ NoDeepSleepInError

\* the lifecycle state in RAM when the event at position i happened
StateAt(i) ==
    IF \E k \in 1..(i - 1) : trace[k][1] = "setState"
    THEN LET k == CHOOSE k \in 1..(i - 1) :
                     /\ trace[k][1] = "setState"
                     /\ \A l \in (k + 1)..(i - 1) : trace[l][1] # "setState"
         IN trace[k][2]
    ELSE STATE_INITIALIZING

\* the non-Error states set in this boot never step back in the order
\* Initializing, ConnectingWifi, CheckingUpdate, UpdatingFirmware,
\* FetchingImage, DisplayingImage, Sleeping (the order of their numbers)
StatesInOrder ==
    \A i, j \in DOMAIN trace :
        /\ i < j
        /\ trace[i][1] = "setState" /\ trace[i][2] # STATE_ERROR
        /\ trace[j][1] = "setState" /\ trace[j][2] # STATE_ERROR
        => trace[i][2] <= trace[j][2]

\* every event of the kind happened in the given lifecycle state
OnlyIn(kind, state) ==
    \A i \in DOMAIN trace : trace[i][1] = kind => StateAt(i) = state

\* C27: within one boot the non-Error lifecycle states are visited in the
\* order Initializing, ConnectingWifi, CheckingUpdate, UpdatingFirmware,
\* FetchingImage, DisplayingImage, Sleeping, never stepping back, and the
\* version check, the telemetry POST and the download are performed only in
\* CheckingUpdate, FetchingImage and FetchingImage.
C27_StatesInOrder ==
    /\ StatesInOrder
    /\ OnlyIn("versionGet", STATE_CHECKING_UPDATE)
    /\ OnlyIn("post", STATE_FETCHING_IMAGE)
    /\ OnlyIn("downloadToSD", STATE_FETCHING_IMAGE)

\* C28: forward progress across restarts: from any boot the device
\* eventually enters deep sleep; it cannot restart again and again without a
\* deep sleep in between.
C28_ForwardProgress == (pc = "setup") ~> (pc = "deep_sleep")

\* the reading just converted and its result, in tenths of a percent
ReadingDone == pc = "battery_read"

\* C29: for every battery voltage of the grid, voltageToPercent is the linear
\* map of [3.2 V, 4.2 V] onto [0, 100] clamped at both ends: 0 at or below
\* 3.2 V, 100 at or above 4.2 V, on the line in between, always within
\* [0, 100], and monotone non-decreasing from one reading to a higher one.
C29_VoltageToPercentClampedLinear ==
    /\ [](ReadingDone =>
            /\ battPct >= 0 /\ battPct <= 1000
            /\ loc.voltage <= 3200 => battPct = 0
            /\ loc.voltage >= 4200 => battPct = 1000
            /\ (loc.voltage > 3200 /\ loc.voltage < 4200) =>
                  battPct * (4200 - 3200) = (loc.voltage - 3200) * 1000)
    /\ [][(ReadingDone /\ loc'.voltage >= loc.voltage) => battPct' >= battPct]_vars

\* a reading of 4.3 V, converted to 100 percent
C29_Witness == ReadingDone /\ loc.voltage = 4300 /\ battPct = 1000

\* the directive's image_url, as read, begins with http://
InsecureUrlRead == pc = "url_check" /\ StartsWith(loc.imageUrl, S_HTTP)

\* the directive of scenario B asked for a wake after 45 seconds
Wake45 == HasEv(<<"directive", 1, 45>>)

\* C30: the image download is never issued to an insecure-scheme URL: an
\* image_url that begins with http:// is rewritten to https:// before
\* downloadToSD is called, the download is then attempted, and with
\* next_wake_secs 45 the wake interval is clamped to 60.
C30_DownloadOnlyOverHttps ==
    /\ [][InsecureUrlRead =>
            /\ pc' = "download"
            /\ loc'.imageUrl = S_HTTPS \o SubSeq(loc.imageUrl, Len(S_HTTP) + 1,
                                                  Len(loc.imageUrl))]_vars
    /\ [][(pc = "download" /\ pc' # pc) =>
            /\ StartsWith(loc.imageUrl, S_HTTPS)
            /\ trace'[Len(trace) + 1] = <<"downloadToSD", 1, 0>>]_vars
    /\ [](Has("downloadToSD") => ~HasEv(<<"downloadToSD", 0, 0>>))
    /\ []((Wake45 /\ pc = "deep_sleep") =>
            /\ timerWakeup = MIN_WAKE_SECS
            /\ Rendered => prefs.nextWake = MIN_WAKE_SECS)

\* scenario B: the URL was upgraded, the image downloaded and shown, and the
\* device sleeps for 60 seconds
C30_Witness ==
    /\ pc = "deep_sleep"
    /\ Wake45
    /\ HasEv(<<"downloadToSD", 1, 0>>)
    /\ Rendered
    /\ timerWakeup = MIN_WAKE_SECS
    /\ prefs.nextWake = MIN_WAKE_SECS

\* the boot took the success path and is in deep sleep
SuccessAsleep == pc = "deep_sleep" /\ (Rendered \/ NoRefresh)

\* the last seven events of the boot are the closing steps, in order, for the
\* clamped interval
ClosingStepsInOrder ==
    LET n == Len(trace)
        w == ExpectedWake
    IN /\ n >= 7
       /\ trace[n - 6] = <<"putNextWake", w, 0>>
       /\ trace[n - 5] = <<"timer", w, 0>>
       /\ trace[n - 4] = <<"ext0", 36, 0>>
       /\ trace[n - 3] = <<"setState", STATE_SLEEPING, ERROR_NONE>>
       /\ trace[n - 2] = <<"wifiOff", 0, 0>>
       /\ trace[n - 1] = <<"sdCardSleep", 0, 0>>
       /\ trace[n] = <<"deepSleep", 0, 0>>

\* C31: on the success path the closing steps happen in exactly this order:
\* clamp, persist sleep.nextWake, arm timer and button, record Sleeping, shut
\* the radio down, put storage to sleep, deep sleep; Sleeping is recorded
\* before the radio shutdown and the persistent store is not written after it.
C31_ClosingStepsInOrder ==
    /\ [](SuccessAsleep =>
            /\ ClosingStepsInOrder
            /\ prefs.nextWake = ExpectedWake)
    /\ [][pc = "sd_sleep" => prefs' = prefs]_vars

\* a boot that showed the image and closed down
C31_Witness == SuccessAsleep /\ Rendered /\ ClosingStepsInOrder /\ radio = "off"

\* the read loop of downloadToSD is running
InReadLoop == pc = "download_loop"

\* one pass of the loop that received a chunk: the stall timer is reset
ChunkRead ==
    /\ pc' = "download_loop"
    /\ loc'.totalBytes > loc.totalBytes
    /\ loc'.lastReadTime = millis

\* one pass of the loop with nothing available on a connected stream, inside
\* the stall timeout
IdlePass ==
    /\ pc' = "download_loop"
    /\ loc' = loc
    /\ millis' > millis
    /\ (millis - loc.lastReadTime) < DOWNLOAD_STALL_MS

\* the loop is left: the stall timeout has run out, or the stream is
\* disconnected with nothing available
LoopExit ==
    /\ pc' = "download_done"
    /\ loc' = loc
    /\ \/ (millis - loc.lastReadTime) >= DOWNLOAD_STALL_MS
       \/ env'.chunks = 0

\* C32: the read loop of downloadToSD terminates whenever the stream stops
\* delivering bytes: it exits once nothing has been available for the
\* 10-second stall timeout, or as soon as the stream is disconnected with
\* nothing available; every received chunk resets the stall timer.
C32_ReadLoopTerminates ==
    /\ InReadLoop ~> (pc = "download_done")
    /\ [][InReadLoop => ChunkRead \/ IdlePass \/ LoopExit]_vars
    /\ [](InReadLoop => millis - loc.lastReadTime < DOWNLOAD_STALL_MS + StallStepMs)

\* the loop gave up after a stall that followed a received chunk
C32_Witness ==
    /\ pc = "download_done"
    /\ loc.totalBytes > 0
    /\ millis - loc.lastReadTime >= DOWNLOAD_STALL_MS

\* setup()'s connect loop has ended without a connection
BootConnectEnded == pc = "connect_done" /\ ~Connected(loc.attempts)

\* the boot has taken the connect-failure branch of setup()
BootConnectFailed == HasEv(<<"display", 1129, 0>>)

\* C33: if the boot-time connect attempt ends without a connection (15
\* one-second polls or 30 seconds elapsed), the controller records Error with
\* WifiConnect, arms a 60-second timer and the button wake source, records
\* Sleeping and enters deep sleep; it does not restart and runs neither the
\* update check nor the display session.
C33_BootConnectFailureSleeps ==
    /\ [](BootConnectEnded =>
            \/ loc.attempts = CONNECT_MAX_ATTEMPTS
            \/ millis - loc.startTime > WIFI_CONNECT_TIMEOUT)
    /\ [][BootConnectEnded => pc' = "connect_failed_sleep" /\ BootConnectFailed']_vars
    /\ [](BootConnectFailed =>
            /\ HasEv(<<"setState", STATE_ERROR, ERROR_WIFI_CONNECT>>)
            /\ pc \in {"connect_failed_sleep", "sd_sleep", "deep_sleep"}
            /\ pc # "connect_failed_sleep" =>
                  /\ timerWakeup = RETRY_SLEEP_SECS
                  /\ ext0Wakeup
                  /\ currentState = STATE_SLEEPING
                  /\ HasEv(<<"setState", STATE_SLEEPING, ERROR_NONE>>)
            /\ ~Has("restart")
            /\ ~Has("versionGet") /\ ~Has("update") /\ ~Has("post")
            /\ ~HasEv(<<"setState", STATE_CHECKING_UPDATE, ERROR_NONE>>)
            /\ ~HasEv(<<"setState", STATE_FETCHING_IMAGE, ERROR_NONE>>))

\* a boot that never connected, asleep for a minute
C33_Witness ==
    /\ BootConnectFailed
    /\ pc = "deep_sleep"
    /\ loc.attempts = CONNECT_MAX_ATTEMPTS
    /\ timerWakeup = RETRY_SLEEP_SECS

\* credential resolution has ended with hasWiFiCredentials false
NoCredentialsFound == pc = "no_credentials"

\* the boot has taken the no-credentials branch of setup()
NoCredentialsPath == HasEv(<<"display", 1071, 0>>)

\* C34: if credential resolution finds no credentials, the boot makes no
\* Wi-Fi connection attempt, no update check and no telemetry POST, records
\* Error with WifiConnect, arms a 300-second timer and the button wake source
\* and enters deep sleep; it does not restart.
C34_NoCredentialsSleeps ==
    /\ [](NoCredentialsFound =>
            /\ loc.ssid = << >>
            /\ prefs.ssid = << >>
            /\ ~Has("wifiBegin"))
    /\ [][NoCredentialsFound => pc' = "sd_sleep" /\ NoCredentialsPath']_vars
    /\ [](NoCredentialsPath =>
            /\ pc \in {"sd_sleep", "deep_sleep"}
            /\ HasEv(<<"setState", STATE_ERROR, ERROR_WIFI_CONNECT>>)
            /\ errorCode = ERROR_WIFI_CONNECT
            /\ timerWakeup = NO_CREDS_SLEEP_SECS
            /\ ext0Wakeup
            /\ radio = "off"
            /\ ~Has("wifiBegin") /\ ~Has("versionGet") /\ ~Has("update")
            /\ ~Has("post") /\ ~Has("restart"))

\* a boot without credentials, asleep for five minutes
C34_Witness ==
    /\ NoCredentialsPath
    /\ pc = "deep_sleep"
    /\ timerWakeup = NO_CREDS_SLEEP_SECS
    /\ prefs.ssid = << >>

\* the image_url just read is neither the sentinel nor an http(s) URL
InvalidUrlRead ==
    /\ pc = "url_check"
    /\ loc.imageUrl # S_NO_REFRESH
    /\ ~StartsWith(loc.imageUrl, S_HTTP)
    /\ ~StartsWith(loc.imageUrl, S_HTTPS)

\* the boot has taken the invalid-URL branch
InvalidUrlPath == HasEv(<<"logError", 749, 0>>)

\* C35: if the directive's image_url is neither "NO_REFRESH" nor a string
\* beginning with http:// or https:// (an empty one included), no download or
\* render is attempted, the failure is recorded as Error with ServerConnect,
\* sleep.nextWake is not written, and the device takes the 60-second retry
\* sleep whatever next_wake_secs says.
C35_InvalidUrlSleeps ==
    /\ [][InvalidUrlRead =>
            /\ pc' = "retry_sleep"
            /\ InvalidUrlPath'
            /\ prefs'.nextWake = prefs.nextWake]_vars
    /\ [](InvalidUrlPath =>
            /\ HasEv(<<"setState", STATE_ERROR, ERROR_SERVER_CONNECT>>)
            /\ pc \in {"retry_sleep", "sd_sleep", "deep_sleep"}
            /\ pc # "retry_sleep" => timerWakeup = RETRY_SLEEP_SECS /\ ext0Wakeup
            /\ ~Has("downloadToSD") /\ ~Has("drawImage")
            /\ ~Has("putNextWake") /\ ~Has("restart"))
    /\ [][(InvalidUrlPath /\ pc # "deep_sleep") => prefs'.nextWake = prefs.nextWake]_vars

\* an empty image_url with next_wake_secs 300: asleep for a minute
C35_Witness ==
    /\ InvalidUrlPath
    /\ pc = "deep_sleep"
    /\ loc.imageUrl = << >>
    /\ HasEv(<<"directive", 1, 300>>)
    /\ timerWakeup = RETRY_SLEEP_SECS

\* the path this boot took to deep sleep
BatteryCriticalPath == HasEv(<<"setState", STATE_ERROR, ERROR_LOW_BATTERY>>)
SuccessPath == Rendered \/ NoRefresh

\* the interval each path arms
PathInterval ==
    IF BatteryCriticalPath THEN BATTERY_SLEEP_SECS
    ELSE IF NoCredentialsPath THEN NO_CREDS_SLEEP_SECS
    ELSE IF SuccessPath THEN ExpectedWake
    ELSE RETRY_SLEEP_SECS

CallerRank(c) == IF c = "none" THEN 0 ELSE IF c = "ota" THEN 1 ELSE 2

\* C37: the reconnect failure counter wifiReconnectAttempts is at most 2 in
\* every reachable state: it restarts from 0 on every boot, grows by one only
\* when a reconnect attempt times out, and checkAndReconnectWifi is entered at
\* most twice per boot (update check, then session start), so the
\* three-failures branch is never reached.
C37_ReconnectCounterBelowThree ==
    /\ [](wifiReconnectAttempts <= 2)
    /\ [][pc' = "setup" => wifiReconnectAttempts' = 0]_vars
    /\ [][wifiReconnectAttempts' > wifiReconnectAttempts =>
            /\ pc = "rc_loop"
            /\ wifiReconnectAttempts' = wifiReconnectAttempts + 1]_vars
    /\ [][pc' = "rc_entry" =>
            /\ loc'.rcCaller \in {"ota", "fetch"}
            /\ CallerRank(loc'.rcCaller) > CallerRank(loc.rcCaller)]_vars
    /\ [](pc \in {"rc_entry", "rc_loop"} =>
            wifiReconnectAttempts < CallerRank(loc.rcCaller))

\* a reconnect attempt has timed out and the boot ends in a restart, the
\* counter at one
C37_Witness ==
    /\ pc = "restarted"
    /\ wifiReconnectAttempts = 1
    /\ HasEv(<<"restart", 534, 0>>)

\* the error codes the firmware records
RecordedCodes ==
    {ERROR_NONE, ERROR_WIFI_CONNECT, ERROR_SERVER_CONNECT, ERROR_IMAGE_DOWNLOAD,
     ERROR_OTA_UPDATE, ERROR_LOW_BATTERY}

\* downloadToSD gave up because the card is absent or the temporary file
\* could not be opened
StorageFailedDownload ==
    HasEv(<<"logError", 457, 0>>) \/ HasEv(<<"logError", 490, 0>>)

\* C38: the error code ERROR_SD_CARD is never recorded: the in-RAM error code
\* and the persisted one (when the key has been written at all) are always
\* one of None, WifiConnect, ServerConnect, ImageDownload, UpdateFailed,
\* BatteryCritical, and a download that fails because storage is unavailable
\* or the temporary file cannot be opened is recorded as ImageDownload.
C38_StorageFaultNeverRecorded ==
    /\ [](/\ errorCode \in RecordedCodes
          /\ prefs.errorCode \in RecordedCodes \cup {-1}
          /\ lastSet[2] # ERROR_SD_CARD
          /\ \A i \in DOMAIN trace :
                trace[i][1] = "setState" => trace[i][3] \in RecordedCodes)
    /\ [](StorageFailedDownload =>
            HasEv(<<"setState", STATE_ERROR, ERROR_IMAGE_DOWNLOAD>>))
    /\ [][(pc = "download" /\ StorageFailedDownload') =>
            /\ errorCode' = ERROR_IMAGE_DOWNLOAD
            /\ prefs'.errorCode = ERROR_IMAGE_DOWNLOAD]_vars

\* the card is absent when the download starts and the boot records
\* ImageDownload
C38_Witness ==
    /\ pc = "retry_sleep"
    /\ ~sdCardAvailable
    /\ HasEv(<<"logError", 457, 0>>)
    /\ errorCode = ERROR_IMAGE_DOWNLOAD
    /\ prefs.errorCode = ERROR_IMAGE_DOWNLOAD

\* reading wifi.txt fails: no card, no file, or a key is missing
OverrideReadFails ==
    \/ ~sdCardAvailable
    \/ ~wifiFile.exists
    \/ ~ParseWiFiFile(wifiFile.content).ok

\* C39: credential resolution never degrades the persistent fallback: over
\* any sequence of boots and reconnect attempts and for any wifi.txt (absent,
\* or with an empty NETWORK= value), a non-empty wifi.ssid in the store is
\* never replaced by an empty one, and a failed read of wifi.txt leaves
\* wifi.ssid and wifi.password unchanged.
C39_FallbackNeverDegraded ==
    /\ [][prefs.ssid # << >> => prefs'.ssid # << >>]_vars
    /\ [][(pc \in {"credentials", "rc_entry"} /\ OverrideReadFails) =>
            /\ prefs'.ssid = prefs.ssid
            /\ prefs'.password = prefs.password]_vars

\* the two situations that call ESP.restart()
SessionStartDisconnected == pc = "fetch_wifi_checked" /\ ~loc.rcResult
UpdateSucceeded == pc = "ota_result" /\ loc.ret = HTTP_UPDATE_OK

\* a failure of this boot that is answered with a sleep
SleepingFailure ==
    \/ BootConnectFailed
    \/ PostFailed
    \/ HasEv(<<"logError", 632, 0>>)
    \/ InvalidUrlPath
    \/ DownloadFailed
    \/ RenderFailed
    \/ BatteryCriticalPath
    \/ NoCredentialsPath

\* C40: ESP.restart() is reached from exactly two situations:
\* checkAndReconnectWifi returning false at the start of the display session,
\* and a successful firmware update; a boot-time connect failure, POST
\* failure, JSON parse failure, invalid URL, download failure, render
\* failure, battery critical or missing credentials never restarts, and a
\* failed update continues the boot sequence.
C40_RestartOnlyFromTwoPlaces ==
    /\ [][pc' = "restarted" <=> (SessionStartDisconnected \/ UpdateSucceeded)]_vars
    /\ [](\A i \in DOMAIN trace :
            trace[i][1] = "restart" => trace[i][2] \in {534, 937})
    /\ [](pc = "restarted" <=> Has("restart"))
    /\ [](SleepingFailure => pc # "restarted" /\ ~Has("restart"))
    /\ [][(pc = "ota_result" /\ loc.ret = HTTP_UPDATE_FAILED) => pc' = "fetch_begin"]_vars

\* a failed update was recorded, the boot went on to the display session, and
\* the session's connectivity check restarted the device
C40_Witness ==
    /\ pc = "restarted"
    /\ HasEv(<<"setState", STATE_ERROR, ERROR_OTA_UPDATE>>)
    /\ HasEv(<<"restart", 534, 0>>)
    /\ ~HasEv(<<"restart", 937, 0>>)

====
